---- MODULE Spec2Model ----
(***************************************************************************)
(* fast-langdetect: model resolution, caching and fallback of LangDetector *)
(* (src/src/fast_langdetect/infer.py).                                     *)
(*                                                                         *)
(* The classifier library (fasttext) and the download library are external *)
(* collaborators: what they return is an environment choice (Envs).        *)
(***************************************************************************)
EXTENDS Integers, Sequences, FiniteSets, TLC

VARIABLES
    fs,         \* the file system: path -> "absent" | "corrupt" | "good"
    configs,    \* LangDetectConfig objects, by identity 
    detectors,  \* LangDetector objects, by identity 
    lastCall,   \* the call that has just ended: what it was given, did and returned
    prevModule, \* what the call before that left for the next one to compare with
    threads     \* the position of each thread that is inside LangDetector.detect

vars == <<fs, configs, detectors, lastCall, prevModule, threads>>

----------------------------------------------------------------------------
(* Bounds *)

NThreads == 2       \* threads calling into the shared default detector
MaxThreadCalls == 1 \* detect calls each of those threads makes
MaxLen == 6         \* characters of a text passed to detect
MaxK == 3           \* the largest k passed to detect_multilingual
MaxSentence == 4    \* characters of a sentence passed to parse_sentence
MaxCellLimit == 3   \* the largest cell_limit passed to parse_sentence

Threads == 1..NThreads

\* The objects of a run, by identity: the config and the detector the
\* module builds at import, the one config and the one detector the caller
\* builds, and the detector a module-level call builds for itself.
ConfigIds == {"default", "user"}
DetectorIds == {"default", "user"}
Fresh == "fresh"
NoId == "none"

----------------------------------------------------------------------------
(* Module constants of infer.py *)

None == "None"
CACHE_DIRECTORY == "fasttext-langdetect"
FASTTEXT_LARGE_MODEL_NAME == "lid.176.bin"
_LOCAL_SMALL_MODEL_PATH == <<"resources", "lid.176.ftz">>
VERIFY_FASTTEXT_LARGE_MODEL == "01810bc59c6a3d2b79c79e6336612f65"

\* Path(dir) / name
PathJoin(dir, name) == <<dir, name>>
\* Path(custom_model_path)
Path(p) == <<"", p>>

\* what callers pass
NoSuchDir == "/nonexistent/path"
CacheDirArgs == {None, NoSuchDir}
CustomPathArgs == {None, "custom.bin"}
VerifyHashArgs == {None, "abc"}
ProxyArgs == {None, "http://proxy"}

Paths == {_LOCAL_SMALL_MODEL_PATH,
          PathJoin(CACHE_DIRECTORY, FASTTEXT_LARGE_MODEL_NAME),
          PathJoin(NoSuchDir, FASTTEXT_LARGE_MODEL_NAME),
          Path("custom.bin")}

\* the file tempfile.mkstemp(suffix='.bin') makes
TmpPath == <<"tmp", "tmp0.bin">>
AllPaths == Paths \cup {TmpPath}

\* what is at a path: no directory to hold the file ("nodir"), no file
\* ("absent"), a file the classifier library cannot load ("corrupt"), a model
FileStates == {"nodir", "absent", "corrupt", "good"}

\* Path.exists()
exists(f, path) == f[path] \notin {"nodir", "absent"}

----------------------------------------------------------------------------
(* Values *)

NoConfig == [cache_dir |-> None, custom_model_path |-> None, proxy |-> None,
             allow_fallback |-> FALSE, disable_verify |-> FALSE,
             verify_hash |-> None, normalize_input |-> FALSE, live |-> FALSE]

\* a loaded classifier; by/n give the object its identity
NoPath == <<"", "">>
NoModel == [path |-> NoPath, by |-> NoId, n |-> 0]
Model(path, by, n) == [path |-> path, by |-> by, n |-> n]

\* the truth value Python gives a cache entry
Truthy(m) == m # NoModel

CacheKeys == {"low_memory", "high_memory"}
EmptyCache == [k \in CacheKeys |-> NoModel]
NoLoads == [k \in CacheKeys |-> 0]

NoDetector == [config |-> NoId, _models |-> EmptyCache, loads |-> NoLoads]

\* an exception with its chain of causes, the raised one first; about is
\* the path its message names
Exc(type, msg, about) == [type |-> type, msg |-> msg, about |-> about]
DetectError(msg) == Exc("DetectError", msg, NoPath)
DetectErrorAbout(msg, path) == Exc("DetectError", msg, path)
NoError == <<>>

Event(op, path) == [op |-> op, path |-> path, key |-> "", via |-> ""]

\* what the environment decides during one call: what the fetch leaves at
\* the destination, whether loading a large file runs out of memory (oom for
\* the resolution that was asked for, oom_again for the one of the fallback),
\* whether the download library makes a missing folder when it leaves no
\* file (mkdir), and whether predict raises
Envs == [dl : {"fail", "absent", "good", "corrupt"}, mkdir : BOOLEAN,
         oom : BOOLEAN, oom_again : BOOLEAN, predict : {"ok", "raise"},
         platform : {"Linux"}]

\* on Windows, what each step of _load_windows_compatible meets: the load
\* by the absolute path, the load by the relative path, mkstemp, copy2, the
\* load of the copy, unlink and MoveFileEx
Outcomes == {"ok", "fail"}
WinEnvs == [dl : {"fail"}, mkdir : {FALSE}, oom : {FALSE}, oom_again : {FALSE},
            predict : {"ok"}, platform : {"Windows"},
            direct : Outcomes, rel : Outcomes, mkstemp : Outcomes, copy : Outcomes,
            tmp : Outcomes, unlink : Outcomes, movefile : Outcomes]

----------------------------------------------------------------------------
(* ModelDownloader and ModelLoader.  Each returns what it returned or      *)
(* raised, the calls it made, and the file system it left.                 *)

Returned(m, ev, f) == [model |-> m, err |-> NoError, events |-> ev, fs |-> f]
Raised(e, ev, f) == [model |-> NoModel, err |-> e, events |-> ev, fs |-> f]

\* the bundled compact model is the only one that always fits in memory
IsLargeFile(path) == path # _LOCAL_SMALL_MODEL_PATH

\* fasttext.load_model(path): a new classifier object, or the library's error
fasttext_load_model(f, path, env, oid) ==
    IF env.oom /\ IsLargeFile(path) /\ exists(f, path)
    THEN Raised(<<Exc("MemoryError", "std::bad_alloc", NoPath)>>, <<Event("load_model", path)>>, f)
    ELSE IF f[path] = "good"
    THEN Returned(Model(path, oid[1], oid[2]), <<Event("load_model", path)>>, f)
    ELSE Raised(<<Exc("ValueError", "cannot be opened for loading", path)>>,
                <<Event("load_model", path)>>, f)

\* ModelLoader._load_unix
_load_unix(f, model_path, env, oid) ==
    LET r == fasttext_load_model(f, model_path, env, oid) IN
    IF r.err = NoError THEN r
    ELSE Raised(<<DetectErrorAbout("Failed to load model: e", model_path)>> \o r.err, r.events, r.fs)

\* fasttext.load_model in _load_windows_compatible, by the path given in
\* the way via: the library loads a model file unless that way of naming the
\* file does not work for it
LoadEvent(path, via) == [Event("load_model", path) EXCEPT !.via = via]
win_loads(f, path, env, via) == f[path] = "good" /\ env[via] = "ok"

\* the finally block of _load_windows_compatible
cleanup(f, env) ==
    IF ~exists(f, TmpPath)
    THEN [events |-> <<>>, fs |-> f]
    ELSE IF env.unlink = "ok"
    THEN [events |-> <<Event("unlink", TmpPath)>>, fs |-> [f EXCEPT ![TmpPath] = "absent"]]
    ELSE [events |-> <<Event("unlink", TmpPath), Event("warning", TmpPath)>>
                     \o (IF env.platform # "Windows" THEN <<>>
                         ELSE IF env.movefile = "ok" THEN <<Event("MoveFileEx", TmpPath)>>
                         ELSE <<Event("MoveFileEx", TmpPath), Event("warning", TmpPath)>>),
          fs |-> f]

cleanup_on_success_only(r, env) ==
    IF r.err # NoError THEN r
    ELSE [r EXCEPT !.events = r.events \o cleanup(r.fs, env).events,
                   !.fs = cleanup(r.fs, env).fs]

\* try ... finally: r is how the try block ended
finally(r, env) ==
    [r EXCEPT !.events = r.events \o cleanup(r.fs, env).events,
              !.fs = cleanup(r.fs, env).fs]

TempFileError(cause) ==
    <<DetectError("Failed to load model using temporary file"), Exc(cause, "e", NoPath)>>

\* the try block of the last strategy: mkstemp, copy2, load_model
temp_try(f, model_path, env, oid) ==
    IF env.mkstemp # "ok"
    THEN Raised(TempFileError("OSError"), <<Event("mkstemp", NoPath)>>, f)
    ELSE IF ~(exists(f, model_path) /\ env.copy = "ok")
    THEN Raised(TempFileError("OSError"),
                <<Event("mkstemp", TmpPath), Event("copy", TmpPath)>>,
                [f EXCEPT ![TmpPath] = "corrupt"])
    ELSE IF win_loads(f, model_path, env, "tmp")
    THEN Returned(Model(model_path, oid[1], oid[2]),
                  <<Event("mkstemp", TmpPath), Event("copy", TmpPath),
                    LoadEvent(TmpPath, "tmp")>>,
                  [f EXCEPT ![TmpPath] = f[model_path]])
    ELSE Raised(TempFileError("ValueError"),
                <<Event("mkstemp", TmpPath), Event("copy", TmpPath),
                  LoadEvent(TmpPath, "tmp")>>,
                [f EXCEPT ![TmpPath] = f[model_path]])

After(ev, r) == [r EXCEPT !.events = ev \o r.events]

_load_windows_compatible_temp_first(f, model_path, env, oid) ==
    IF win_loads(f, model_path, env, "tmp") /\ env.mkstemp = "ok" /\ env.copy = "ok"
    THEN finally(temp_try(f, model_path, env, oid), env)
    ELSE IF win_loads(f, model_path, env, "direct")
    THEN Returned(Model(model_path, oid[1], oid[2]), <<LoadEvent(model_path, "direct")>>, f)
    ELSE IF win_loads(f, model_path, env, "rel")
    THEN Returned(Model(model_path, oid[1], oid[2]),
                  <<LoadEvent(model_path, "direct"), LoadEvent(model_path, "rel")>>, f)
    ELSE After(<<LoadEvent(model_path, "direct"), LoadEvent(model_path, "rel")>>,
               finally(temp_try(f, model_path, env, oid), env))

\* ModelLoader._load_windows_compatible
_load_windows_compatible(f, model_path, env, oid) ==
    IF win_loads(f, model_path, env, "direct")
    THEN Returned(Model(model_path, oid[1], oid[2]), <<LoadEvent(model_path, "direct")>>, f)
    ELSE IF win_loads(f, model_path, env, "rel")
    THEN Returned(Model(model_path, oid[1], oid[2]),
                  <<LoadEvent(model_path, "direct"), LoadEvent(model_path, "rel")>>, f)
    ELSE After(<<LoadEvent(model_path, "direct"), LoadEvent(model_path, "rel")>>,
               finally(temp_try(f, model_path, env, oid), env))

\* ModelVerifier.calculate_md5: the digest of the file's content; the
\* official Full model has the well-known digest, other content has another
OtherDigest == "d41d8cd98f00b204e9800998ecf8427e"
calculate_md5(f, file_path) ==
    IF f[file_path] = "good" /\ file_path[2] = FASTTEXT_LARGE_MODEL_NAME
    THEN VERIFY_FASTTEXT_LARGE_MODEL
    ELSE OtherDigest

\* ModelVerifier.verify
verify(f, file_path, expected_md5) == calculate_md5(f, file_path) = expected_md5

\* the first statement of load_local: the file is verified when a hash is
\* given and the file exists, and a mismatch is logged
VerifyEvents(f, model_path, verify_hash) ==
    IF verify_hash # None /\ verify_hash # "" /\ exists(f, model_path)
    THEN IF verify(f, model_path, verify_hash)
         THEN <<Event("verify", model_path)>>
         ELSE <<Event("verify", model_path), Event("warning", model_path)>>
    ELSE <<>>

load_local_fatal_mismatch(f, model_path, verify_hash, env, oid) ==
    IF ~exists(f, model_path)
    THEN Raised(<<DetectErrorAbout("Model file not found", model_path)>>,
                <<Event("load_local", model_path)>>, f)
    ELSE IF verify_hash # None /\ verify_hash # "" /\ ~verify(f, model_path, verify_hash)
    THEN Raised(<<DetectErrorAbout("MD5 verification failed", model_path)>>,
                <<Event("load_local", model_path), Event("verify", model_path)>>, f)
    ELSE _load_unix(f, model_path, env, oid)

\* ModelLoader.load_local
load_local(f, model_path, verify_hash, env, oid) ==
    LET ev == <<Event("load_local", model_path)>> \o VerifyEvents(f, model_path, verify_hash) IN
    IF ~exists(f, model_path)
    THEN Raised(<<DetectErrorAbout("Model file not found", model_path)>>, ev, f)
    ELSE IF env.platform = "Windows"
    THEN After(ev, _load_windows_compatible(f, model_path, env, oid))
    ELSE After(ev, _load_unix(f, model_path, env, oid))

\* the download library's download(url, folder, filename, ...): it is given
\* the folder as it is; whether it makes a missing folder before it fails or
\* gives up is the library's (env.mkdir), and a file it leaves has a folder
made_folder(f, save_path, env) ==
    f[save_path] = "nodir" /\ (env.mkdir \/ env.dl \in {"good", "corrupt"})

fetch_events(f, save_path, env) ==
    IF made_folder(f, save_path, env)
    THEN <<Event("fetch", save_path), Event("mkdir", save_path)>>
    ELSE <<Event("fetch", save_path)>>

fetched(f, save_path, env) ==
    IF env.dl \in {"good", "corrupt"} THEN [f EXCEPT ![save_path] = env.dl]
    ELSE IF made_folder(f, save_path, env) THEN [f EXCEPT ![save_path] = "absent"]
    ELSE f

download_always_fetches(f, save_path, proxy, env) ==
    IF env.dl = "fail"
    THEN Raised(<<DetectError("Download failed: e"), Exc("Exception", "fetch failed", NoPath)>>,
                <<Event("download", save_path)>> \o fetch_events(f, save_path, env),
                fetched(f, save_path, env))
    ELSE Returned(NoModel, <<Event("download", save_path)>> \o fetch_events(f, save_path, env),
                  fetched(f, save_path, env))

\* ModelDownloader.download
download(f, save_path, proxy, env) ==
    IF exists(f, save_path)
    THEN Returned(NoModel, <<Event("download", save_path)>>, f)
    ELSE IF env.dl = "fail"
    THEN Raised(<<DetectError("Download failed: e"), Exc("Exception", "fetch failed", NoPath)>>,
                <<Event("download", save_path)>> \o fetch_events(f, save_path, env),
                fetched(f, save_path, env))
    ELSE Returned(NoModel, <<Event("download", save_path)>> \o fetch_events(f, save_path, env),
                  fetched(f, save_path, env))

load_with_download_always_downloads(f, model_path, proxy, env, oid) ==
    LET d == download(f, model_path, proxy, env)
    IN  IF d.err # NoError THEN d
        ELSE LET r == load_local(d.fs, model_path, None, env, oid) IN
             [r EXCEPT !.events = d.events \o r.events]

\* ModelLoader.load_with_download
load_with_download(f, model_path, proxy, env, oid) ==
    LET d == IF ~exists(f, model_path)
             THEN download(f, model_path, proxy, env)
             ELSE Returned(NoModel, <<>>, f)
    IN  IF d.err # NoError THEN d
        ELSE LET r == load_local(d.fs, model_path, None, env, oid) IN
             [r EXCEPT !.events = d.events \o r.events]

----------------------------------------------------------------------------
(* LangDetectConfig *)

custom_model_missing_unchecked(custom_model_path, f) == FALSE

\* the test that makes LangDetectConfig.__init__ raise FileNotFoundError
custom_model_missing(custom_model_path, f) ==
    custom_model_path # None /\ custom_model_path # "" /\ ~exists(f, Path(custom_model_path))

\* the fields LangDetectConfig.__init__ sets
LangDetectConfig(cache_dir, custom_model_path, proxy, allow_fallback, disable_verify, verify_hash, normalize_input) ==
    [cache_dir |-> IF cache_dir = None \/ cache_dir = "" THEN CACHE_DIRECTORY ELSE cache_dir,
     custom_model_path |-> custom_model_path,
     proxy |-> proxy,
     allow_fallback |-> allow_fallback,
     disable_verify |-> disable_verify,
     verify_hash |-> verify_hash,
     normalize_input |-> normalize_input,
     live |-> TRUE]

\* LangDetectConfig()
DefaultConfig == LangDetectConfig(None, None, None, TRUE, FALSE, None, TRUE)

----------------------------------------------------------------------------
(* LangDetector *)

\* LangDetector.__init__
LangDetector(config_id) == [config |-> config_id, _models |-> EmptyCache, loads |-> NoLoads]

cache_key(low_memory) == IF low_memory THEN "low_memory" ELSE "high_memory"

cached_never(models, key) == NoModel

\* self._models.get(cache_key)
cached(models, key) == models[key]

resolve_lite_fetches(config, low_memory, f, env, oid) ==
    IF config.custom_model_path # None
    THEN [res |-> load_local(f, Path(config.custom_model_path), None, env, oid),
          config |-> config]
    ELSE IF low_memory
    THEN [res |-> load_with_download(f, _LOCAL_SMALL_MODEL_PATH, config.proxy, env, oid),
          config |-> config]
    ELSE [res |-> load_with_download(f, PathJoin(config.cache_dir, FASTTEXT_LARGE_MODEL_NAME),
                                     config.proxy, env, oid),
          config |-> config]

resolve_custom_full_only(config, low_memory, f, env, oid) ==
    IF config.custom_model_path # None /\ ~low_memory
    THEN [res |-> load_local(f, Path(config.custom_model_path), None, env, oid),
          config |-> config]
    ELSE IF low_memory
    THEN [res |-> load_local(f, _LOCAL_SMALL_MODEL_PATH, None, env, oid), config |-> config]
    ELSE [res |-> load_with_download(f, PathJoin(config.cache_dir, FASTTEXT_LARGE_MODEL_NAME),
                                     config.proxy, env, oid),
          config |-> config]

resolve_full_twice(config, low_memory, f, env, oid) ==
    IF config.custom_model_path # None
    THEN [res |-> load_local(f, Path(config.custom_model_path), None, env, oid),
          config |-> config]
    ELSE IF low_memory
    THEN [res |-> load_local(f, _LOCAL_SMALL_MODEL_PATH, None, env, oid), config |-> config]
    ELSE LET r == load_with_download(
                      f, PathJoin(config.cache_dir, FASTTEXT_LARGE_MODEL_NAME),
                      config.proxy, env, oid) IN
         [res |-> IF r.err = NoError THEN r
                  ELSE [r EXCEPT !.events = r.events \o r.events],
          config |-> config]

\* the try block of _get_model up to the load: which file is loaded, and
\* what is written to the config on the way
resolve(config, low_memory, f, env, oid) ==
    IF config.custom_model_path # None
    THEN LET r == load_local(f, Path(config.custom_model_path), None, env, oid) IN
         [res |-> r,
          config |-> IF config.disable_verify
                     THEN [config EXCEPT !.verify_hash = None] ELSE config]
    ELSE IF low_memory
    THEN LET r == load_local(f, _LOCAL_SMALL_MODEL_PATH, None, env, oid) IN
         [res |-> r, config |-> [config EXCEPT !.verify_hash = None]]
    ELSE LET r == load_with_download(
                      f, PathJoin(config.cache_dir, FASTTEXT_LARGE_MODEL_NAME),
                      config.proxy, env, oid) IN
         [res |-> r,
          config |-> IF config.verify_hash = None /\ ~config.disable_verify
                     THEN [config EXCEPT !.verify_hash = VERIFY_FASTTEXT_LARGE_MODEL]
                     ELSE config]

IsMemoryError(e) == \E i \in DOMAIN e : e[i].type = "MemoryError"

may_fallback_never(low_memory, config, e) == FALSE
may_fallback_unasked(low_memory, config, e) == ~low_memory
may_fallback_memory_only(low_memory, config, e) ==
    ~low_memory /\ config.allow_fallback /\ IsMemoryError(e)

\* the condition of the except block: any exception e is caught
may_fallback(low_memory, config, e) == ~low_memory /\ config.allow_fallback

after_fallback_persisted(models, key, model) == [models EXCEPT ![key] = model]

\* the cache after `return self._get_model(low_memory=True)`: the handle
\* that is returned is not stored under the key that was asked for
after_fallback(models, key, model) == models

\* the error the except block raises: DetectError(...) from e
load_error(e) == <<DetectError("Failed to load model")>> \o e

Keyed(events, key) == [i \in DOMAIN events |-> [events[i] EXCEPT !.key = key]]

\* LangDetector._get_model.  by: the detector's identity, self: its fields,
\* config: its config object.  Returns the handle or the error, and the
\* detector, the config and the file system as the call leaves them; orig is
\* the error of the resolution that was asked for, when that one failed.
RECURSIVE _get_model(_, _, _, _, _, _)

\* `return self._get_model(low_memory=True)` in the except block: g is what
\* that call gave, ev and e what the failed resolution did and raised
fallback(g, key, ev, e) ==
    [g EXCEPT !.events = ev \o Keyed(<<Event("fallback", NoPath)>>, key) \o g.events,
              !.orig = e,
              !.self._models = after_fallback(g.self._models, key, g.model)]

\* _get_model after the try block ran: t is what resolve gave
resolved(by, self, low_memory, env, key, t) ==
    IF t.res.err = NoError
    THEN [model |-> t.res.model, err |-> NoError, orig |-> NoError,
          events |-> Keyed(t.res.events, key), fs |-> t.res.fs,
          self |-> [self EXCEPT !._models[key] = t.res.model, !.loads[key] = @ + 1],
          config |-> t.config]
    ELSE IF may_fallback(low_memory, t.config, t.res.err)
    THEN fallback(_get_model(by, self, t.config, TRUE, t.res.fs,
                             [env EXCEPT !.oom = env.oom_again]),
                  key, Keyed(t.res.events, key), t.res.err)
    ELSE [model |-> NoModel, err |-> load_error(t.res.err), orig |-> t.res.err,
          events |-> Keyed(t.res.events, key),
          fs |-> t.res.fs, self |-> self, config |-> t.config]

_get_model(by, self, config, low_memory, f, env) ==
    IF Truthy(cached(self._models, cache_key(low_memory)))
    THEN [model |-> cached(self._models, cache_key(low_memory)),
          err |-> NoError, orig |-> NoError, events |-> <<>>, fs |-> f,
          self |-> self, config |-> config]
    ELSE resolved(by, self, low_memory, env, cache_key(low_memory),
                  resolve(config, low_memory, f, env,
                          <<by, self.loads[cache_key(low_memory)] + 1>>))

predict_retries(op, g, low_memory, env) ==
    IF g.err # NoError
    THEN [err |-> g.err, orig |-> g.orig, used |-> NoModel, events |-> g.events,
          fs |-> g.fs, self |-> g.self, config |-> g.config]
    ELSE IF env.predict = "ok"
    THEN [err |-> NoError, orig |-> g.orig, used |-> g.model,
          events |-> g.events \o Keyed(<<Event("predict", g.model.path)>>, cache_key(low_memory)),
          fs |-> g.fs, self |-> g.self, config |-> g.config]
    ELSE [err |-> <<DetectError(IF op = "detect" THEN "Language detection failed"
                                ELSE "Multilingual detection failed."),
                    Exc("ValueError", "predict", NoPath)>>,
          orig |-> g.orig, used |-> g.model,
          events |-> g.events \o Keyed(<<Event("predict", g.model.path),
                                         Event("predict", g.model.path)>>,
                                       cache_key(low_memory)),
          fs |-> g.fs, self |-> g.self, config |-> g.config]

\* LangDetector.detect and LangDetector.detect_multilingual: resolve the
\* model, predict.  op names the method.
\* the try block of detect / detect_multilingual: model.predict on the handle
\* g.model that _get_model gave, or the error _get_model raised
predict(op, g, low_memory, env) ==
    IF g.err # NoError
    THEN [err |-> g.err, orig |-> g.orig, used |-> NoModel, events |-> g.events,
          fs |-> g.fs, self |-> g.self, config |-> g.config]
    ELSE IF env.predict = "ok"
    THEN [err |-> NoError, orig |-> g.orig, used |-> g.model,
          events |-> g.events \o Keyed(<<Event("predict", g.model.path)>>, cache_key(low_memory)),
          fs |-> g.fs, self |-> g.self, config |-> g.config]
    ELSE [err |-> <<DetectError(IF op = "detect" THEN "Language detection failed"
                                ELSE "Multilingual detection failed."),
                    Exc("ValueError", "predict", NoPath)>>,
          orig |-> g.orig, used |-> g.model,
          events |-> g.events \o Keyed(<<Event("predict", g.model.path)>>, cache_key(low_memory)),
          fs |-> g.fs, self |-> g.self, config |-> g.config]

LangDetector_detect(op, by, self, config, low_memory, f, env) ==
    predict(op, _get_model(by, self, config, low_memory, f, env), low_memory, env)

\* a low_memory argument that is not a bool: a string that is not empty,
\* or None
OtherSelectors == {"full", None}
\* the truth value `"low_memory" if low_memory else "high_memory"` goes by
bool(selector) == selector \notin {None, ""}

\* _get_model when low_memory is not a bool: the cache key goes by its
\* truth value, while `low_memory is True` is false, so that the try block
\* takes the branch of the custom or the large model and the except block
\* may fall back
_get_model_of(by, self, config, selector, f, env) ==
    IF Truthy(cached(self._models, cache_key(bool(selector))))
    THEN [model |-> cached(self._models, cache_key(bool(selector))),
          err |-> NoError, orig |-> NoError, events |-> <<>>, fs |-> f,
          self |-> self, config |-> config]
    ELSE resolved(by, self, FALSE, env, cache_key(bool(selector)),
                  resolve(config, FALSE, f, env,
                          <<by, self.loads[cache_key(bool(selector))] + 1>>))

\* detect / detect_multilingual with such an argument
LangDetector_detect_of(op, by, self, config, selector, f, env) ==
    predict(op, _get_model_of(by, self, config, selector, f, env), bool(selector), env)

----------------------------------------------------------------------------
(* The text of a call: a sequence of characters.  A character is one of   *)
(* its kind: an upper-case and a lower-case letter of [A-Za-z], the        *)
(* newline, and an upper-case and a lower-case letter outside [A-Za-z]     *)
(* (U+00C9, U+00E9); the space comes in where a newline was.               *)

Newline == "\n"
Chars == {"A", "a", Newline, "U+00C9", "U+00E9"}
Texts == UNION {[1..n -> Chars] : n \in 0..MaxLen}

\* str.replace(old, new) for one-character old and new
str_replace(text, old, new) ==
    [i \in DOMAIN text |-> IF text[i] = old THEN new ELSE text[i]]

\* the characters str.isupper and str.lower take as cased
UpperChars == {"A", "U+00C9"}
LowerChars == {"a", "U+00E9"}
lower_char(ch) ==
    IF ch = "A" THEN "a" ELSE IF ch = "U+00C9" THEN "U+00E9" ELSE ch

\* str.lower
str_lower(text) == [i \in DOMAIN text |-> lower_char(text[i])]

\* str.isupper: at least one cased character and no cased character that
\* is not upper-case
str_isupper(text) ==
    /\ \E i \in DOMAIN text : text[i] \in UpperChars
    /\ \A i \in DOMAIN text : text[i] \notin LowerChars

\* len(re.findall(pattern, text)) for a pattern that is one character class
findall_len(class, text) == Cardinality({i \in DOMAIN text : text[i] \in class})

\* LangDetector._preprocess_text (the warnings are not modelled)
_preprocess_text_keeps_newlines(text) == text

_preprocess_text(text) ==
    IF \E i \in DOMAIN text : text[i] = Newline
    THEN str_replace(text, Newline, " ")
    ELSE text

\* LangDetector._normalize_text; n > 0.8 * m is 10 * n > 8 * m
_normalize_text_at_80(text, should_normalize) ==
    IF ~should_normalize THEN text
    ELSE IF \/ str_isupper(text)
            \/ /\ 10 * findall_len({"A"}, text) >= 8 * findall_len({"A", "a"}, text)
               /\ Len(text) > 5
    THEN str_lower(text)
    ELSE text

_normalize_text(text, should_normalize) ==
    IF ~should_normalize THEN text
    ELSE IF \/ str_isupper(text)
            \/ /\ 10 * findall_len({"A"}, text) > 8 * findall_len({"A", "a"}, text)
               /\ Len(text) > 5
    THEN str_lower(text)
    ELSE text

\* the classifier's predict takes one line: it raises ValueError for a text
\* that contains a newline
NewlineError ==
    <<DetectError("Language detection failed"),
      Exc("ValueError", "predict processes one line at a time", NoPath)>>

\* detect with its text: r is what detect does about the model; when it
\* reaches predict, given is the text predict gets
given_text(r, given) ==
    IF \A i \in DOMAIN r.events : r.events[i].op # "predict"
    THEN [err |-> r.err, orig |-> r.orig, used |-> r.used, events |-> r.events,
          fs |-> r.fs, self |-> r.self, config |-> r.config, given |-> <<>>]
    ELSE [err |-> IF \E i \in DOMAIN given : given[i] = Newline
                  THEN NewlineError ELSE r.err,
          orig |-> r.orig, used |-> r.used, events |-> r.events,
          fs |-> r.fs, self |-> r.self, config |-> r.config, given |-> given]

detect_text(r, text, normalize_input) ==
    given_text(r, _normalize_text(_preprocess_text(text), normalize_input))

----------------------------------------------------------------------------
(* What predict returns: labels and scores, here a sequence of pairs.  A   *)
(* label is its parts in order, a score is in tenths (10 is 1.0).          *)

LabelPrefix == "__label__"
RawLabels == {<<LabelPrefix, "en">>, <<LabelPrefix, "ja">>}
ScoreOne == 10
RawScores == {0 - 1, 5, ScoreOne, ScoreOne + 1}
Pairs == [label : RawLabels, score : RawScores]
Outputs(k) == UNION {[1..n -> Pairs] : n \in 0..k}

\* label.replace("__label__", "")
strip_label(label) == SelectSeq(label, LAMBDA part : part # LabelPrefix)

\* min(float(score), 1.0)
clamp_missing(score) == score

clamp(score) == IF score < ScoreOne THEN score ELSE ScoreOne

\* {"lang": label.replace("__label__", ""), "score": min(float(score), 1.0)}
result_of(pair) == [lang |-> strip_label(pair.label), score |-> clamp(pair.score)]

\* sorted(results, key=lambda x: x["score"], reverse=True): stable, results
\* of equal score keep their order
put_sorted_before_equals(done, x) ==
    SubSeq(done, 1, Cardinality({i \in DOMAIN done : done[i].score > x.score}))
      \o <<x>>
      \o SubSeq(done, Cardinality({i \in DOMAIN done : done[i].score > x.score}) + 1, Len(done))

put_sorted(done, x) ==
    SubSeq(done, 1, Cardinality({i \in DOMAIN done : done[i].score >= x.score}))
      \o <<x>>
      \o SubSeq(done, Cardinality({i \in DOMAIN done : done[i].score >= x.score}) + 1, Len(done))

RECURSIVE sorted_by_score(_)
sorted_unsorted(results) == results

sorted_by_score(results) ==
    IF results = <<>> THEN <<>>
    ELSE put_sorted(sorted_by_score(SubSeq(results, 1, Len(results) - 1)),
                    results[Len(results)])

IndexError ==
    <<DetectError("Language detection failed"), Exc("IndexError", "labels[0]", NoPath)>>

\* the try block of detect and of detect_multilingual with what predict
\* returned: r is what the call does about the model, out what predict gave
returned(r, err, out, result) ==
    [err |-> err, orig |-> r.orig, used |-> r.used, events |-> r.events,
     fs |-> r.fs, self |-> r.self, config |-> r.config, out |-> out, result |-> result]

results_of(op, r, out) ==
    IF r.err # NoError THEN returned(r, r.err, <<>>, <<>>)
    ELSE IF op = "detect"
    THEN (IF out = <<>> THEN returned(r, IndexError, out, <<>>)
          ELSE returned(r, NoError, out, <<result_of(out[1])>>))
    ELSE returned(r, NoError, out,
                  sorted_by_score([i \in DOMAIN out |-> result_of(out[i])]))

----------------------------------------------------------------------------
(* split: Parse.create_cell and Parse._merge_cell.  A sentence is its       *)
(* characters, here told apart by their place (1, 2, ...); the cutter       *)
(* gives its sentence-like chunks; detect_text gives each unit its          *)
(* language, or none.                                                      *)

Sentences == {[i \in 1..n |-> i] : n \in 0..MaxSentence}

\* "".join(texts)
RECURSIVE join(_)
join(texts) == IF texts = <<>> THEN <<>> ELSE Head(texts) \o join(Tail(texts))

\* what CutSentence.chinese_sentence_cut may return for a sentence: chunks
\* that are not empty and make up the sentence
CutLists(sentence) ==
    {cut \in UNION {[1..n -> {SubSeq(sentence, a, b) : a \in 1..Len(sentence),
                                                       b \in 1..Len(sentence)} \ {<<>>}] :
                     n \in 0..Len(sentence)} :
        join(cut) = sentence}

\* what detect_text returns for a unit: a language, or None
Langs == {None, "EN", "ZH"}

\* [_cut[i:i + cell_limit] for i in range(0, len(_cut), cell_limit)]
windows_one_longer(_cut, cell_limit) ==
    [k \in 1..((Len(_cut) + cell_limit) \div (cell_limit + 1)) |->
        SubSeq(_cut, (k - 1) * (cell_limit + 1) + 1,
               IF k * (cell_limit + 1) < Len(_cut) THEN k * (cell_limit + 1) ELSE Len(_cut))]

windows(_cut, cell_limit) ==
    [k \in 1..((Len(_cut) + cell_limit - 1) \div cell_limit) |->
        SubSeq(_cut, (k - 1) * cell_limit + 1,
               IF k * cell_limit < Len(_cut) THEN k * cell_limit ELSE Len(_cut))]

\* the first loop of create_cell: _cut_list, the units detect_text gets
RECURSIVE limited(_, _)
limited(cut_list, cell_limit) ==
    IF cut_list = <<>> THEN <<>>
    ELSE (IF Len(Head(cut_list)) > cell_limit
          THEN windows(Head(cut_list), cell_limit)
          ELSE <<Head(cut_list)>>)
         \o limited(Tail(cut_list), cell_limit)

Cell(text, lang) == [text |-> text, lang |-> lang, length |-> Len(text)]

\* the second loop of create_cell: langs[i] is what detect_text gave for
\* unit i; `if _lang` is false for None
RECURSIVE labelled(_, _, _)
labelled_always_filters(_cut_list, langs, filter_space) ==
    IF _cut_list = <<>> THEN <<>>
    ELSE (IF Head(langs) # None THEN <<Cell(Head(_cut_list), Head(langs))>> ELSE <<>>)
         \o labelled(Tail(_cut_list), Tail(langs), TRUE)

labelled(_cut_list, langs, filter_space) ==
    IF _cut_list = <<>> THEN <<>>
    ELSE (IF ~filter_space THEN <<Cell(Head(_cut_list), Head(langs))>>
          ELSE IF Head(langs) # None THEN <<Cell(Head(_cut_list), Head(langs))>>
          ELSE <<>>)
         \o labelled(Tail(_cut_list), Tail(langs), filter_space)

\* sum([len(_c) for _c in _cache])
RECURSIVE sum_len(_)
sum_len(_cache) == IF _cache = <<>> THEN 0 ELSE Len(Head(_cache)) + sum_len(Tail(_cache))

\* {"text": "".join(_cache), "lang": last_lang, "length": _length}
Merged(_cache, last_lang) ==
    [text |-> join(_cache), lang |-> last_lang, length |-> sum_len(_cache)]

\* the loop of _merge_cell: m is _merged, _cache and last_lang before the
\* results that are left
RECURSIVE merge_loop(_, _)
merge_loop_prepends(m, result) ==
    IF result = <<>>
    THEN (IF m._cache # <<>> THEN Append(m._merged, Merged(m._cache, m.last_lang))
          ELSE m._merged)
    ELSE IF Head(result).lang = m.last_lang
    THEN merge_loop([m EXCEPT !._cache = <<Head(result).text>> \o @], Tail(result))
    ELSE merge_loop([_merged |-> IF m._cache # <<>>
                                 THEN Append(m._merged, Merged(m._cache, m.last_lang))
                                 ELSE m._merged,
                     _cache |-> <<Head(result).text>>,
                     last_lang |-> Head(result).lang],
                    Tail(result))

merge_loop(m, result) ==
    IF result = <<>>
    THEN (IF m._cache # <<>> THEN Append(m._merged, Merged(m._cache, m.last_lang))
          ELSE m._merged)
    ELSE IF Head(result).lang = m.last_lang
    THEN merge_loop([m EXCEPT !._cache = Append(@, Head(result).text)], Tail(result))
    ELSE merge_loop([_merged |-> IF m._cache # <<>>
                                 THEN Append(m._merged, Merged(m._cache, m.last_lang))
                                 ELSE m._merged,
                     _cache |-> <<Head(result).text>>,
                     last_lang |-> Head(result).lang],
                    Tail(result))

\* Parse._merge_cell
_merge_cell_not_at_all(result) == result

_merge_cell_forgets_last(result) ==
    SubSeq(merge_loop([_merged |-> <<>>, _cache |-> <<>>, last_lang |-> None], result),
           1, Len(merge_loop([_merged |-> <<>>, _cache |-> <<>>, last_lang |-> None],
                             result)) - 1)

_merge_cell(result) ==
    merge_loop([_merged |-> <<>>, _cache |-> <<>>, last_lang |-> None], result)

\* Parse.create_cell after the cutter: the units and the cells
create_cell_merges_first(cut_list, langs, merge_same, cell_limit, filter_space) ==
    [units |-> limited(cut_list, cell_limit),
     cells |-> IF merge_same
               THEN SelectSeq(_merge_cell(labelled(limited(cut_list, cell_limit), langs, FALSE)),
                              LAMBDA cell : ~filter_space \/ cell.lang # None)
               ELSE labelled(limited(cut_list, cell_limit), langs, filter_space)]

create_cell(cut_list, langs, merge_same, cell_limit, filter_space) ==
    [units |-> limited(cut_list, cell_limit),
     cells |-> IF merge_same
               THEN _merge_cell(labelled(limited(cut_list, cell_limit), langs, filter_space))
               ELSE labelled(limited(cut_list, cell_limit), langs, filter_space)]

----------------------------------------------------------------------------
(* The package's detect_language.  A character is its code point.          *)

KanaLow == 12352    \* 0x3040
KanaHigh == 12543   \* 0x30FF
CodePoints == {65, KanaLow, KanaLow + 1, KanaHigh - 1, KanaHigh, 20013}
KanaSentences == UNION {[1..n -> CodePoints] : n \in 0..MaxSentence}

\* what detect(sentence, model=model, k=1) gives detect_language: a list
\* that is empty or has one result, whose "lang" is a label
LangLabels == {"en", "ja", "zh"}
TopResults == {<<>>} \cup {<<[lang |-> label]>> : label \in LangLabels}

\* str.upper for a label
label_upper(label) ==
    IF label = "en" THEN "EN" ELSE IF label = "ja" THEN "JA"
    ELSE IF label = "zh" THEN "ZH" ELSE label

\* is_japanese
is_japanese_inclusive(string) ==
    \E i \in DOMAIN string : KanaLow <= string[i] /\ string[i] <= KanaHigh

is_japanese(string) ==
    \E i \in DOMAIN string : KanaLow < string[i] /\ string[i] < KanaHigh

\* lines 29 to 32 of detect_language: res_list is what detect gave
lang_code(sentence, res_list) ==
    IF res_list = <<>> THEN "EN"
    ELSE IF label_upper(res_list[1].lang) = "JA" /\ ~is_japanese(sentence) THEN "ZH"
    ELSE label_upper(res_list[1].lang)

----------------------------------------------------------------------------
(* The module-level functions detect / detect_multilingual *)

select_detector_shared(config_id, model_download_proxy, use_strict_mode) == "default"

\* which detector a module-level call uses: its own new one when a config
\* or a deprecated parameter is given, else _default_detector
select_detector(config_id, model_download_proxy, use_strict_mode) ==
    IF config_id # NoId THEN Fresh
    ELSE IF model_download_proxy # None \/ use_strict_mode THEN Fresh
    ELSE "default"

\* custom_config of the deprecated parameters
custom_config(model_download_proxy, use_strict_mode) ==
    LangDetectConfig(None, None, model_download_proxy, ~use_strict_mode, FALSE, None, TRUE)

----------------------------------------------------------------------------
(* State machine: calls made one after another *)

\* The environment is asked only what the call needs: a choice the call
\* never looks at is not a different call.
Asked(env, events) ==
    /\ (\A i \in DOMAIN events : events[i].op # "fetch") => env.dl = "fail"
    /\ env.mkdir => /\ \E i \in DOMAIN events : events[i].op = "mkdir"
                    /\ env.dl \in {"fail", "absent"}
    /\ env.oom =>
          \E i \in DOMAIN events :
             /\ events[i].op = "load_model" /\ IsLargeFile(events[i].path)
             /\ (\E j \in DOMAIN events : events[j].op = "fallback") =>
                   events[i].key # "low_memory"
    /\ env.oom_again =>
          \E i \in DOMAIN events :
             /\ events[i].op = "load_model" /\ IsLargeFile(events[i].path)
             /\ events[i].key = "low_memory"
             /\ \E j \in DOMAIN events : events[j].op = "fallback"
    /\ (\A i \in DOMAIN events : events[i].op # "predict") => env.predict = "ok"

Idle == [pc |-> "idle", req |-> TRUE, low_memory |-> TRUE, model |-> NoModel,
         err |-> NoError, calls |-> 0]

NoCall == [level |-> "none", op |-> "none", det |-> NoId, cfg |-> NoId,
           low_memory |-> TRUE, arg |-> None, strict |-> FALSE, proxy |-> None,
           allow_fallback |-> FALSE, custom |-> None,
           events |-> <<>>, orig |-> NoError, err |-> NoError, used |-> NoModel,
           models |-> EmptyCache, path |-> NoPath, hash |-> None,
           text |-> <<>>, normalize |-> TRUE, given |-> <<>>,
           k |-> 0, out |-> <<>>, result |-> <<>>, selector |-> "bool",
           cut |-> <<>>, langs |-> <<>>, merge_same |-> TRUE, cell_limit |-> 0,
           filter_space |-> TRUE, units |-> <<>>, cells |-> <<>>,
           sentence |-> <<>>, res_list |-> <<>>, lang_code |-> ""]

Init ==
    /\ fs \in [AllPaths -> FileStates]
    /\ fs[_LOCAL_SMALL_MODEL_PATH] # "corrupt"
    /\ fs[TmpPath] = "absent"
    /\ \A path \in Paths :
          fs[path] = "nodir" <=> path = PathJoin(NoSuchDir, FASTTEXT_LARGE_MODEL_NAME)
    /\ configs = [c \in ConfigIds |-> IF c = "default" THEN DefaultConfig ELSE NoConfig]
    /\ detectors = [d \in DetectorIds |->
                      IF d = "default" THEN LangDetector("default") ELSE NoDetector]
    /\ lastCall = NoCall
    /\ prevModule = None
    /\ threads = [t \in Threads |-> Idle]

\* the tier the call that just ended loaded and used, when that call was a
\* module-level call that was passed the caller's config and returned a result
ModuleLoadOf(call) ==
    IF /\ call.level = "module" /\ call.cfg = "user"
       /\ call.err = NoError /\ call.orig = NoError
       /\ \E i \in DOMAIN call.events : call.events[i].op = "load_model"
    THEN cache_key(call.low_memory)
    ELSE None

\* config = LangDetectConfig(...)
NewConfig(cache_dir, custom_model_path, proxy, allow_fallback, disable_verify, verify_hash) ==
    /\ lastCall = NoCall
    /\ ~configs["user"].live
    /\ LET missing == custom_model_missing(custom_model_path, fs) IN
       /\ configs' = IF missing THEN configs
                     ELSE [configs EXCEPT !["user"] =
                             LangDetectConfig(cache_dir, custom_model_path, proxy,
                                              allow_fallback, disable_verify, verify_hash, TRUE)]
       /\ lastCall' = [NoCall EXCEPT
                         !.level = "ctor", !.op = "LangDetectConfig", !.cfg = "user",
                         !.arg = custom_model_path,
                         !.err = IF missing
                                 THEN <<Exc("FileNotFoundError", "Target model file not found", Path(custom_model_path))>>
                                 ELSE NoError]
    /\ UNCHANGED <<fs, detectors, prevModule, threads>>

\* detector = LangDetector(config)
NewDetector ==
    /\ lastCall = NoCall
    /\ detectors["user"] = NoDetector
    /\ configs["user"].live
    /\ detectors' = [detectors EXCEPT !["user"] = LangDetector("user")]
    /\ lastCall' = [NoCall EXCEPT !.level = "ctor", !.op = "LangDetector",
                                  !.det = "user", !.cfg = "user"]
    /\ UNCHANGED <<fs, configs, prevModule, threads>>

\* detector.detect(text, low_memory) / detector.detect_multilingual(text, low_memory)
\* the call ends: r is what it gave; the objects it was made on are as it
\* left them, and call, which says what was asked, says what was done too
Called(env, r, c, d, call) ==
    /\ Asked(env, r.events)
    /\ fs' = r.fs
    /\ configs' = IF c # NoId THEN [configs EXCEPT ![c] = r.config] ELSE configs
    /\ detectors' = IF d # Fresh THEN [detectors EXCEPT ![d] = r.self] ELSE detectors
    /\ lastCall' = [call EXCEPT !.events = r.events, !.orig = r.orig,
                                !.err = r.err, !.used = r.used,
                                !.models = r.self._models]

MethodCall(op, d, low_memory) ==
    /\ lastCall = NoCall
    /\ detectors[d] # NoDetector
    /\ \E env \in Envs :
         Called(env,
                LangDetector_detect(op, d, detectors[d], configs[detectors[d].config],
                                    low_memory, fs, env),
                detectors[d].config, d,
                [NoCall EXCEPT
                   !.level = "method", !.op = op, !.det = d, !.cfg = detectors[d].config,
                   !.low_memory = low_memory,
                   !.allow_fallback = configs[detectors[d].config].allow_fallback,
                   !.custom = configs[detectors[d].config].custom_model_path])
    /\ UNCHANGED <<prevModule, threads>>

\* detector.detect(text, low_memory=selector) with a selector that is not a
\* bool
SelectorCall(op, d, selector) ==
    /\ lastCall = NoCall
    /\ detectors[d] # NoDetector
    /\ \E env \in Envs :
         Called(env,
                LangDetector_detect_of(op, d, detectors[d], configs[detectors[d].config],
                                       selector, fs, env),
                detectors[d].config, d,
                [NoCall EXCEPT
                   !.level = "method", !.op = op, !.det = d, !.cfg = detectors[d].config,
                   !.low_memory = bool(selector), !.selector = selector,
                   !.allow_fallback = configs[detectors[d].config].allow_fallback,
                   !.custom = configs[detectors[d].config].custom_model_path])
    /\ UNCHANGED <<prevModule, threads>>

\* detect(text, low_memory=, model_download_proxy=, use_strict_mode=, config=)
\* and detect_multilingual(...) of the module
ModuleCall(op, low_memory, model_download_proxy, use_strict_mode, config_id) ==
    /\ lastCall = NoCall
    /\ config_id # NoId => configs[config_id].live
    /\ \E env \in Envs :
         LET d == select_detector(config_id, model_download_proxy, use_strict_mode)
             c == IF d # Fresh THEN detectors[d].config ELSE config_id
             self == IF d # Fresh THEN detectors[d] ELSE LangDetector(c)
             config == IF c # NoId THEN configs[c]
                       ELSE custom_config(model_download_proxy, use_strict_mode)
         IN Called(env, LangDetector_detect(op, d, self, config, low_memory, fs, env), c, d,
                   [NoCall EXCEPT
                      !.level = "module", !.op = op, !.det = d, !.cfg = config_id,
                      !.low_memory = low_memory, !.strict = use_strict_mode,
                      !.proxy = model_download_proxy,
                      !.allow_fallback = config.allow_fallback,
                      !.custom = config.custom_model_path])
    /\ UNCHANGED <<prevModule, threads>>

\* the caller has the result (or the exception) and goes on
Return ==
    /\ lastCall # NoCall
    /\ prevModule' = ModuleLoadOf(lastCall)
    /\ lastCall' = NoCall
    /\ UNCHANGED <<fs, configs, detectors, threads>>

Methods == {"detect", "detect_multilingual"}

\* the caller builds a config and a detector and calls the detector's methods
Next ==
    \/ \E cd \in CacheDirArgs, cp \in CustomPathArgs, af \in BOOLEAN,
          dv \in BOOLEAN, vh \in VerifyHashArgs :
          NewConfig(cd, cp, None, af, dv, vh)
    \/ NewDetector
    \/ \E op \in Methods, lm \in BOOLEAN : MethodCall(op, "user", lm)
    \/ Return

Spec == Init /\ [][Next]_vars

\* the caller calls the functions of the module: without a config (the shared
\* default detector), with a config it built, or with the deprecated parameters
NextModule ==
    \/ \E cp \in CustomPathArgs, af \in BOOLEAN, vh \in VerifyHashArgs :
          NewConfig(None, cp, None, af, FALSE, vh)
    \/ \E op \in Methods, lm \in BOOLEAN :
          \/ ModuleCall(op, lm, None, FALSE, "user")
          \/ \E px \in ProxyArgs, st \in BOOLEAN : ModuleCall(op, lm, px, st, NoId)
    \/ Return

SpecModule == Init /\ [][NextModule]_vars

\* the caller builds a config and a detector and calls detect with bools and
\* with other values for low_memory
NextSelector ==
    \/ \E cp \in CustomPathArgs, af \in BOOLEAN : NewConfig(None, cp, None, af, FALSE, None)
    \/ NewDetector
    \/ \E lm \in BOOLEAN : MethodCall("detect", "user", lm)
    \/ \E selector \in OtherSelectors : SelectorCall("detect", "user", selector)
    \/ Return

SpecSelector == Init /\ [][NextSelector]_vars

----------------------------------------------------------------------------
(* State machine: the caller uses ModelDownloader and ModelLoader directly. *)
(* lastCall is the call made last; there is no detector and no cache.       *)

LoaderId == "loader"

\* a call of the loader or the downloader has no fallback and no predict
LoaderEnvs == {env \in Envs : ~env.oom_again /\ env.predict = "ok"}

\* the call ends: r is what it gave
Loaded(env, r, call) ==
    /\ Asked(env, r.events)
    /\ fs' = r.fs
    /\ lastCall' = [call EXCEPT !.events = r.events, !.err = r.err, !.used = r.model]
    /\ UNCHANGED <<configs, detectors, prevModule, threads>>

\* ModelDownloader.download(url, save_path, proxy)
Download(save_path, proxy) ==
    \E env \in LoaderEnvs :
       Loaded(env, download(fs, save_path, proxy, env),
              [NoCall EXCEPT !.level = "loader", !.op = "download",
                             !.path = save_path, !.proxy = proxy])

\* ModelLoader().load_local(model_path, verify_hash)
LoadLocal(model_path, verify_hash) ==
    \E env \in LoaderEnvs :
       Loaded(env, load_local(fs, model_path, verify_hash, env, <<LoaderId, 1>>),
              [NoCall EXCEPT !.level = "loader", !.op = "load_local",
                             !.path = model_path, !.hash = verify_hash])

\* ModelLoader().load_with_download(model_path, proxy)
LoadWithDownload(model_path, proxy) ==
    \E env \in LoaderEnvs :
       Loaded(env, load_with_download(fs, model_path, proxy, env, <<LoaderId, 1>>),
              [NoCall EXCEPT !.level = "loader", !.op = "load_with_download",
                             !.path = model_path, !.proxy = proxy])

NextLoader ==
    \/ \E path \in Paths, px \in ProxyArgs : Download(path, px)
    \/ \E path \in Paths, vh \in VerifyHashArgs \cup {VERIFY_FASTTEXT_LARGE_MODEL} :
          LoadLocal(path, vh)
    \/ \E path \in Paths, px \in ProxyArgs : LoadWithDownload(path, px)

SpecLoader == Init /\ [][NextLoader]_vars

----------------------------------------------------------------------------
(* State machine: ModelLoader on Windows.                                   *)

\* a step of _load_windows_compatible that was not reached did not fail
AskedWindows(env, events) ==
    /\ env.rel = "fail" => \E i \in DOMAIN events : events[i].via = "rel"
    /\ env.mkstemp = "fail" => \E i \in DOMAIN events : events[i].op = "mkstemp"
    /\ env.copy = "fail" => \E i \in DOMAIN events : events[i].op = "copy"
    /\ env.tmp = "fail" => \E i \in DOMAIN events : events[i].via = "tmp"
    /\ env.unlink = "fail" => \E i \in DOMAIN events : events[i].op = "unlink"
    /\ env.movefile = "fail" => \E i \in DOMAIN events : events[i].op = "MoveFileEx"

LoadedWindows(env, r, call) == AskedWindows(env, r.events) /\ Loaded(env, r, call)

\* ModelLoader().load_local(model_path, verify_hash) on Windows; mkstemp
\* makes a name that is not in use
WindowsLoadLocal(model_path, verify_hash) ==
    /\ fs[TmpPath] = "absent"
    /\ \E env \in WinEnvs :
          LoadedWindows(env, load_local(fs, model_path, verify_hash, env, <<LoaderId, 1>>),
                        [NoCall EXCEPT !.level = "loader", !.op = "load_local",
                                       !.path = model_path, !.hash = verify_hash])

\* ModelLoader()._load_windows_compatible(model_path)
LoadWindowsCompatible(model_path) ==
    /\ fs[TmpPath] = "absent"
    /\ \E env \in WinEnvs :
          LoadedWindows(env, _load_windows_compatible(fs, model_path, env, <<LoaderId, 1>>),
                        [NoCall EXCEPT !.level = "loader", !.op = "_load_windows_compatible",
                                       !.path = model_path])

\* the temporary file a call could not delete is deleted later (at the next
\* reboot when MoveFileEx scheduled it, or by hand)
RemoveTemp ==
    /\ fs[TmpPath] # "absent"
    /\ fs' = [fs EXCEPT ![TmpPath] = "absent"]
    /\ lastCall' = NoCall
    /\ UNCHANGED <<configs, detectors, prevModule, threads>>

NextWindows ==
    \/ \E path \in Paths, vh \in VerifyHashArgs : WindowsLoadLocal(path, vh)
    \/ \E path \in Paths : LoadWindowsCompatible(path)
    \/ RemoveTemp

SpecWindows == Init /\ [][NextWindows]_vars

----------------------------------------------------------------------------
(* State machine: the text of detect.                                       *)

\* nothing was downloaded, no custom model; fetches fail
InitText ==
    /\ Init
    /\ \A path \in AllPaths \ {_LOCAL_SMALL_MODEL_PATH} : fs[path] \in {"absent", "nodir"}
TextEnvs == {env \in Envs : env.dl = "fail" /\ ~env.mkdir /\ ~env.oom /\ ~env.oom_again}

TextCalled(env, r, call) == Called(env, r, NoId, Fresh, [call EXCEPT !.given = r.given])

\* detect(text, low_memory=True, config=LangDetectConfig(normalize_input=...))
DetectText(text, normalize_input) ==
    /\ lastCall = NoCall
    /\ \E env \in TextEnvs :
          TextCalled(env,
                     detect_text(LangDetector_detect("detect", Fresh, LangDetector(NoId),
                                    LangDetectConfig(None, None, None, TRUE, FALSE, None,
                                                     normalize_input),
                                    TRUE, fs, env),
                                 text, normalize_input),
                     [NoCall EXCEPT !.level = "module", !.op = "detect",
                                    !.det = Fresh, !.allow_fallback = TRUE,
                                    !.text = text, !.normalize = normalize_input])
    /\ UNCHANGED <<prevModule, threads>>

NextText ==
    \/ lastCall = NoCall /\ \E text \in Texts, ni \in BOOLEAN : DetectText(text, ni)
    \/ Return

SpecText == InitText /\ [][NextText]_vars

----------------------------------------------------------------------------
(* State machine: the results of detect and detect_multilingual.            *)

\* the call ends with what predict returned and what the caller gets
ResultCalled(env, r, call) ==
    Called(env, r, NoId, Fresh, [call EXCEPT !.out = r.out, !.result = r.result])

\* detect(text, low_memory=True, config=LangDetectConfig()) and
\* detect_multilingual(text, low_memory=True, k=k, config=LangDetectConfig())
DetectResults(op, k, out) ==
    /\ lastCall = NoCall
    /\ \E env \in TextEnvs :
          ResultCalled(env,
                       results_of(op,
                                  LangDetector_detect(op, Fresh, LangDetector(NoId),
                                      LangDetectConfig(None, None, None, TRUE, FALSE, None, TRUE),
                                      TRUE, fs, env),
                                  out),
                       [NoCall EXCEPT !.level = "module", !.op = op,
                                      !.det = Fresh, !.allow_fallback = TRUE, !.k = k])
    /\ UNCHANGED <<prevModule, threads>>

NextResults ==
    \/ lastCall = NoCall /\ \E out \in Outputs(1) : DetectResults("detect", 1, out)
    \/ lastCall = NoCall /\ \E k \in 1..MaxK :
          \E out \in Outputs(k) : DetectResults("detect_multilingual", k, out)
    \/ Return

SpecResults == InitText /\ [][NextResults]_vars

----------------------------------------------------------------------------
(* State machine: parse_sentence.                                           *)

\* the call ends: c is what create_cell gave
Parsed(c, call) ==
    /\ lastCall' = [call EXCEPT !.units = c.units, !.cells = c.cells]
    /\ UNCHANGED <<fs, configs, detectors, prevModule, threads>>

\* parse_sentence(text, merge_same=, cell_limit=, filter_space=): the cutter
\* gives cut_list, detect_text gives langs
ParseSentence(cut_list, langs, merge_same, cell_limit, filter_space) ==
    /\ lastCall = NoCall
    /\ Parsed(create_cell(cut_list, langs, merge_same, cell_limit, filter_space),
              [NoCall EXCEPT !.level = "split", !.op = "parse_sentence",
                             !.cut = cut_list, !.langs = langs,
                             !.merge_same = merge_same, !.cell_limit = cell_limit,
                             !.filter_space = filter_space])

NextSplit ==
    \/ lastCall = NoCall /\ \E sentence \in Sentences, cell_limit \in 1..MaxCellLimit :
          \E cut_list \in CutLists(sentence) :
             \E langs \in [1..Len(limited(cut_list, cell_limit)) -> Langs] :
                \E merge_same \in BOOLEAN, filter_space \in BOOLEAN :
                   ParseSentence(cut_list, langs, merge_same, cell_limit, filter_space)
    \/ Return

SpecSplit == InitText /\ [][NextSplit]_vars

----------------------------------------------------------------------------
(* State machine: detect_language.                                          *)

\* detect_language(sentence, low_memory=low_memory): detect gives res_list
DetectLanguage(sentence, low_memory, res_list) ==
    /\ lastCall = NoCall
    /\ lastCall' = [NoCall EXCEPT !.level = "package", !.op = "detect_language",
                                  !.low_memory = low_memory,
                                  !.sentence = sentence, !.res_list = res_list,
                                  !.lang_code = lang_code(sentence, res_list)]
    /\ UNCHANGED <<fs, configs, detectors, prevModule, threads>>

NextLanguage ==
    \/ lastCall = NoCall /\ \E sentence \in KanaSentences, low_memory \in BOOLEAN :
          \E res_list \in TopResults : DetectLanguage(sentence, low_memory, res_list)
    \/ Return

SpecLanguage == InitText /\ [][NextLanguage]_vars

----------------------------------------------------------------------------
(* State machine: threads inside _default_detector.detect at the same time. *)
(* A thread can be switched out between any two statements of _get_model:  *)
(* the cache lookup, the load, the cache write and the except block are     *)
(* steps of their own.                                                      *)

Shared == "default"

\* a thread calls _default_detector.detect(text, low_memory)
T_Call(t, low_memory) ==
    /\ threads[t].pc \in {"idle", "done", "raised"}
    /\ threads[t].calls < MaxThreadCalls
    /\ threads' = [threads EXCEPT ![t] =
                      [pc |-> "check", req |-> low_memory, low_memory |-> low_memory,
                       model |-> NoModel, err |-> NoError, calls |-> threads[t].calls + 1]]
    /\ UNCHANGED <<fs, configs, detectors, lastCall, prevModule>>

\* if model := self._models.get(cache_key): return model
T_Check(t) ==
    /\ threads[t].pc = "check"
    /\ LET hit == cached(detectors[Shared]._models, cache_key(threads[t].low_memory)) IN
       threads' = [threads EXCEPT ![t] =
                     IF Truthy(hit) THEN [threads[t] EXCEPT !.pc = "predict", !.model = hit]
                     ELSE [threads[t] EXCEPT !.pc = "load"]]
    /\ UNCHANGED <<fs, configs, detectors, lastCall, prevModule>>

\* the try block up to the load
T_Load(t) ==
    /\ threads[t].pc = "load"
    /\ \E env \in Envs :
         LET key == cache_key(threads[t].low_memory)
             c == detectors[Shared].config
             x == resolve(configs[c], threads[t].low_memory, fs, env,
                          <<Shared, detectors[Shared].loads[key] + 1>>)
         IN /\ Asked(env, x.res.events)
            /\ fs' = x.res.fs
            /\ configs' = [configs EXCEPT ![c] = x.config]
            /\ IF x.res.err = NoError
               THEN /\ detectors' = [detectors EXCEPT ![Shared].loads[key] = @ + 1]
                    /\ threads' = [threads EXCEPT ![t].pc = "insert",
                                                  ![t].model = x.res.model]
               ELSE /\ detectors' = detectors
                    /\ threads' = [threads EXCEPT ![t].pc = "except",
                                                  ![t].err = x.res.err]
    /\ UNCHANGED <<lastCall, prevModule>>

\* self._models[cache_key] = model; return model
T_Insert(t) ==
    /\ threads[t].pc = "insert"
    /\ detectors' = [detectors EXCEPT
                        ![Shared]._models[cache_key(threads[t].low_memory)] = threads[t].model]
    /\ threads' = [threads EXCEPT ![t].pc = "predict"]
    /\ UNCHANGED <<fs, configs, lastCall, prevModule>>

\* the except block: resolve the Lite model instead, or raise
T_Except(t) ==
    /\ threads[t].pc = "except"
    /\ LET self == threads[t] IN
       threads' = [threads EXCEPT ![t] =
                     IF may_fallback(self.low_memory, configs[detectors[Shared].config], self.err)
                     THEN [self EXCEPT !.pc = "check", !.low_memory = TRUE, !.err = NoError]
                     ELSE [self EXCEPT !.pc = "raised", !.err = load_error(self.err)]]
    /\ UNCHANGED <<fs, configs, detectors, lastCall, prevModule>>

\* model.predict(normalized_text) and the return or the raise of detect
T_Predict(t) ==
    /\ threads[t].pc = "predict"
    /\ \E outcome \in {"ok", "raise"} :
         threads' = [threads EXCEPT ![t] =
                       IF outcome = "ok" THEN [threads[t] EXCEPT !.pc = "done"]
                       ELSE [threads[t] EXCEPT !.pc = "raised",
                                      !.err = <<DetectError("Language detection failed"),
                                                Exc("ValueError", "predict", NoPath)>>]]
    /\ UNCHANGED <<fs, configs, detectors, lastCall, prevModule>>

NextThreads ==
    \E t \in Threads :
        \/ \E lm \in BOOLEAN : T_Call(t, lm)
        \/ T_Check(t)
        \/ T_Load(t)
        \/ T_Insert(t)
        \/ T_Except(t)
        \/ T_Predict(t)

SpecThreads == Init /\ [][NextThreads]_vars

TypeOK ==
    /\ fs \in [AllPaths -> FileStates]
    /\ DOMAIN configs = ConfigIds
    /\ DOMAIN detectors = DetectorIds
    /\ prevModule \in CacheKeys \cup {None}

----------------------------------------------------------------------------
(* Properties *)

IsCall(call) == call.level \in {"method", "module"}
HasEvent(call, op) == \E i \in DOMAIN call.events : call.events[i].op = op
FellBack(call) == HasEvent(call, "fallback")
LoaderOps == {"load_local", "download", "fetch", "verify", "load_model"}
\* the call touched the loader, the downloader or the verifier for tier key
LoadsFor(call, key) ==
    \E i \in DOMAIN call.events :
        call.events[i].key = key /\ call.events[i].op \in LoaderOps
LargePath(c) == PathJoin(c.cache_dir, FASTTEXT_LARGE_MODEL_NAME)

\* C1: on one detector, a tier that is cached stays cached with the same
\* handle; a call never runs the loader, the downloader or the verifier for a
\* cached tier; a call for a cached tier does nothing but predict; and no
\* tier is loaded successfully more than once per detector.
C1_CachedTierNeverReloaded ==
    /\ [][\A d \in DetectorIds :
            (IsCall(lastCall') /\ lastCall = NoCall /\ lastCall'.det = d) =>
               /\ \A key \in CacheKeys :
                    Truthy(detectors[d]._models[key]) =>
                       /\ detectors'[d]._models[key] = detectors[d]._models[key]
                       /\ ~LoadsFor(lastCall', key)
               /\ Truthy(detectors[d]._models[cache_key(lastCall'.low_memory)]) =>
                       /\ Len(lastCall'.events) = 1
                       /\ lastCall'.events[1].op = "predict"
                       /\ lastCall'.used = detectors[d]._models[cache_key(lastCall'.low_memory)]
                       /\ <<fs, configs, detectors>>' = <<fs, configs, detectors>>]_vars
    /\ [](\A d \in DetectorIds, key \in CacheKeys : detectors[d].loads[key] <= 1)

\* a call on a caller-built detector served from the cache alone
C1_Witness ==
    /\ IsCall(lastCall) /\ lastCall.det = "user"
    /\ Len(lastCall.events) = 1 /\ lastCall.events[1].op = "predict"
    /\ lastCall.used = detectors["user"]._models[cache_key(lastCall.low_memory)]
    /\ detectors["user"].loads[cache_key(lastCall.low_memory)] = 1

\* a Full-tier request, no custom model path, whose Full resolution failed
FullFailed(call) ==
    IsCall(call) /\ ~call.low_memory /\ call.custom = None /\ call.orig # NoError

LiteHandle(m) == Truthy(m) /\ m.path = _LOCAL_SMALL_MODEL_PATH

\* C2 as stated: whenever the Full resolution of a Full-tier request fails
\* and fallback is allowed, the call returns a result made by the Lite handle.
C2_FallbackAlwaysSucceeds ==
    [][(lastCall = NoCall /\ FullFailed(lastCall') /\ lastCall'.allow_fallback) =>
          (lastCall'.err = NoError /\ LiteHandle(lastCall'.used))]_vars

\* where the Lite model comes from when the call needs it
LiteAvailable(d) ==
    \/ fs[_LOCAL_SMALL_MODEL_PATH] = "good"
    \/ d \in DetectorIds /\ Truthy(detectors[d]._models["low_memory"])

PredictFailed(call) ==
    /\ call.err # NoError
    /\ Head(call.err).msg \in {"Language detection failed", "Multilingual detection failed."}

\* C2 amended: the call then resolves the Lite model in the same call and the
\* error of the Full resolution is never raised; if the Lite model is cached
\* or its file loads, predict runs on the Lite handle and the call returns its
\* result unless predict itself fails; if the Lite model cannot be loaded
\* either, the call raises the error of the Lite resolution.
C2_FallbackUsesLite ==
    [][(lastCall = NoCall /\ FullFailed(lastCall') /\ lastCall'.allow_fallback) =>
          /\ FellBack(lastCall')
          /\ lastCall'.err # load_error(lastCall'.orig)
          /\ LiteAvailable(lastCall'.det) =>
                /\ LiteHandle(lastCall'.used)
                /\ lastCall'.err = NoError \/ PredictFailed(lastCall')
          /\ ~LiteAvailable(lastCall'.det) =>
                /\ lastCall'.used = NoModel
                /\ Head(lastCall'.err) = DetectError("Failed to load model")
                /\ Head(Tail(lastCall'.err)).about = _LOCAL_SMALL_MODEL_PATH]_vars

\* a Full-tier call that fell back and returned the Lite handle's result
C2_Witness ==
    /\ FullFailed(lastCall) /\ lastCall.allow_fallback
    /\ lastCall.err = NoError /\ LiteHandle(lastCall.used)

NoLiteLoad(call) ==
    \A i \in DOMAIN call.events :
        call.events[i].key # "low_memory" /\ call.events[i].path # _LOCAL_SMALL_MODEL_PATH

\* the cache of the detector of the call is as it was before the call (a
\* detector built for the call started with an empty cache)
CacheUntouched(call) ==
    /\ call.det \in DetectorIds => detectors'[call.det] = detectors[call.det]
    /\ call.models = IF call.det \in DetectorIds THEN detectors[call.det]._models
                                                 ELSE EmptyCache

C4_FallbackNotPersisted ==
    /\ [][\A d \in DetectorIds :
            (lastCall = NoCall /\ IsCall(lastCall') /\ lastCall'.det = d) =>
               /\ FellBack(lastCall') =>
                     /\ ~Truthy(detectors'[d]._models["high_memory"])
                     /\ Truthy(lastCall'.used) =>
                           lastCall'.used = detectors'[d]._models["low_memory"]
               /\ (~lastCall'.low_memory /\ ~Truthy(detectors[d]._models["high_memory"])) =>
                     /\ lastCall'.events # <<>>
                     /\ lastCall'.events[1].key = "high_memory"
                     /\ lastCall'.events[1].op \in {"download", "load_local"}
                     /\ lastCall'.orig = NoError =>
                           /\ Truthy(detectors'[d]._models["high_memory"])
                           /\ detectors'[d]._models["high_memory"].n
                                 = detectors[d].loads["high_memory"] + 1
                           /\ lastCall'.used = detectors'[d]._models["high_memory"]]_vars
    /\ [](\A d \in DetectorIds : ~LiteHandle(detectors[d]._models["high_memory"]))

\* a Full-tier call on a detector that fell back and left the Lite handle
\* under the Lite key only
C4_Witness ==
    /\ IsCall(lastCall) /\ lastCall.det = "user" /\ FellBack(lastCall)
    /\ lastCall.err = NoError
    /\ lastCall.used = detectors["user"]._models["low_memory"]
    /\ ~Truthy(detectors["user"]._models["high_memory"])

\* C5 as stated: the Lite tier is substituted only when the Full resolution
\* failed with a memory-class error.
C5_FallbackOnlyOnMemoryError ==
    [][(lastCall = NoCall /\ IsCall(lastCall') /\ FellBack(lastCall')) =>
          IsMemoryError(lastCall'.orig)]_vars

\* C5 amended: the Lite tier is substituted exactly when the resolution of a
\* Full-tier request failed, for whatever reason (file not found, download
\* failure, corrupt file or memory), and the caller permits fallback.
C5_FallbackOnAnyError ==
    [][(lastCall = NoCall /\ IsCall(lastCall')) =>
          (FellBack(lastCall') <=>
              (~lastCall'.low_memory /\ lastCall'.orig # NoError
                  /\ lastCall'.allow_fallback))]_vars

\* a fallback after a failure that is not a memory error
C5_Witness ==
    /\ IsCall(lastCall) /\ FellBack(lastCall)
    /\ lastCall.orig # NoError /\ ~IsMemoryError(lastCall.orig)

\* C7: LangDetectConfig(...) with a custom_model_path that does not exist
\* raises FileNotFoundError and leaves no config behind; every config that
\* exists was given no custom path or one that existed, and every detector
\* has such a config.
C7_MissingCustomPathRejected ==
    /\ [][(lastCall = NoCall /\ lastCall'.op = "LangDetectConfig"
             /\ lastCall'.arg # None /\ ~exists(fs, Path(lastCall'.arg))) =>
             /\ lastCall'.err # NoError
             /\ Head(lastCall'.err).type = "FileNotFoundError"
             /\ <<fs, configs, detectors>>' = <<fs, configs, detectors>>]_vars
    /\ [][\A c \in ConfigIds :
            (~configs[c].live /\ configs'[c].live) =>
               \/ configs'[c].custom_model_path = None
               \/ exists(fs, Path(configs'[c].custom_model_path))]_vars
    /\ [](\A d \in DetectorIds :
            detectors[d] # NoDetector => configs[detectors[d].config].live)

\* the constructor was given a missing custom path and raised
C7_Witness ==
    /\ lastCall.op = "LangDetectConfig" /\ lastCall.arg # None
    /\ ~exists(fs, Path(lastCall.arg))
    /\ lastCall.err # NoError
    /\ ~configs["user"].live

\* C8 as stated: no call changes a field of a LangDetectConfig.
C8_ConfigImmutable ==
    [][\A c \in ConfigIds : configs[c].live => configs'[c] = configs[c]]_vars

\* the module-level call was given a config or a deprecated parameter
OwnConfig(call) ==
    call.level = "module" /\ (call.cfg # NoId \/ call.proxy # None \/ call.strict)

\* C9: a module-level call with a config or a deprecated parameter leaves the
\* default detector as it was and does not use a handle of its cache; every
\* handle in the default detector's cache was loaded by the default detector.
C9_DefaultCacheNotShared ==
    /\ [][(lastCall = NoCall /\ OwnConfig(lastCall')) =>
             /\ lastCall'.det = Fresh
             /\ detectors'["default"] = detectors["default"]
             /\ lastCall'.used.by # "default"
             /\ Truthy(lastCall'.used) => lastCall'.used.by = Fresh]_vars
    /\ [](\A key \in CacheKeys :
            Truthy(detectors["default"]._models[key]) =>
               detectors["default"]._models[key].by = "default")

\* a call with the caller's config loaded its own handle for a tier the
\* default detector already holds
C9_Witness ==
    /\ OwnConfig(lastCall) /\ lastCall.cfg = "user" /\ lastCall.err = NoError
    /\ Truthy(detectors["default"]._models[cache_key(lastCall.low_memory)])
    /\ lastCall.used.by = Fresh
    /\ lastCall.used.path = detectors["default"]._models[cache_key(lastCall.low_memory)].path

\* C10 as stated: a module-level call that is passed the same config and
\* asks for the same tier as the call just before it, which loaded that
\* tier's model and returned a result, runs no load sequence.
C10_SameConfigLoadsOnce ==
    [][(lastCall = NoCall /\ prevModule # None
          /\ lastCall'.level = "module" /\ lastCall'.cfg = "user"
          /\ cache_key(lastCall'.low_memory) = prevModule) =>
          ~HasEvent(lastCall', "load_local")]_vars

IsLargeModelFile(path) == path[2] = FASTTEXT_LARGE_MODEL_NAME

\* C11: the downloader is invoked only while the Full tier is resolved, with
\* no custom model path, for the Full file of the cache directory, and only
\* when that file is absent; whatever is done for the Lite tier, as a request
\* or as a fallback, is neither a download nor a fetch, and without a custom
\* model path it concerns the bundled compact file only.
C11_LiteNeverDownloads ==
    [][(lastCall = NoCall /\ IsCall(lastCall')) =>
          \A i \in DOMAIN lastCall'.events :
             /\ lastCall'.events[i].op \in {"download", "fetch"} =>
                   /\ lastCall'.events[i].key = "high_memory"
                   /\ ~lastCall'.low_memory
                   /\ lastCall'.custom = None
                   /\ IsLargeModelFile(lastCall'.events[i].path)
                   /\ ~exists(fs, lastCall'.events[i].path)
             /\ (lastCall'.events[i].key = "low_memory"
                   /\ lastCall'.events[i].op \in LoaderOps) =>
                   /\ lastCall'.events[i].op \notin {"download", "fetch"}
                   /\ lastCall'.custom = None =>
                         lastCall'.events[i].path = _LOCAL_SMALL_MODEL_PATH]_vars

\* a Full-tier call that fetched, failed, fell back and loaded the bundled file
C11_Witness ==
    /\ IsCall(lastCall) /\ FellBack(lastCall) /\ HasEvent(lastCall, "fetch")
    /\ lastCall.err = NoError /\ LiteHandle(lastCall.used)
    /\ \E i \in DOMAIN lastCall.events :
          /\ lastCall.events[i].key = "low_memory"
          /\ lastCall.events[i].op = "load_model"

\* C12: with a custom model path in the config, whatever a call does for any
\* tier, in the resolution asked for and in the fallback, it does on the
\* custom path: nothing else is loaded and nothing is downloaded; the handle
\* a call uses is one of the custom file; and a call that needs the file
\* loaded when the file cannot be loaded raises, with allow_fallback=True too.
C12_CustomPathOverridesTier ==
    [][(lastCall = NoCall /\ IsCall(lastCall') /\ lastCall'.custom # None) =>
          /\ \A i \in DOMAIN lastCall'.events :
                lastCall'.events[i].op \in LoaderOps =>
                   /\ lastCall'.events[i].path = Path(lastCall'.custom)
                   /\ lastCall'.events[i].op \notin {"download", "fetch"}
          /\ Truthy(lastCall'.used) => lastCall'.used.path = Path(lastCall'.custom)
          /\ fs' = fs
          /\ (fs[Path(lastCall'.custom)] # "good" /\ HasEvent(lastCall', "load_local")) =>
                /\ lastCall'.err # NoError
                /\ Head(lastCall'.err) = DetectError("Failed to load model")
                /\ lastCall'.used = NoModel]_vars

\* a Full-tier call with allow_fallback=True on a custom file that cannot be
\* loaded: the fallback tried the custom file again and the call raised
C12_Witness ==
    /\ IsCall(lastCall) /\ lastCall.custom # None /\ ~lastCall.low_memory
    /\ lastCall.allow_fallback /\ FellBack(lastCall)
    /\ fs[Path(lastCall.custom)] = "corrupt"
    /\ lastCall.err # NoError
    /\ \E i \in DOMAIN lastCall.events :
          /\ lastCall.events[i].key = "low_memory" /\ lastCall.events[i].op = "load_model"
          /\ lastCall.events[i].path = Path(lastCall.custom)

IsLoaderCall(call, op) == call.level = "loader" /\ call.op = op

\* C13: ModelDownloader.download for a destination that exists fetches
\* nothing, raises nothing and leaves every file as it was; so when a download
\* call fetched and left the file at the destination, the next download call
\* for that destination does not fetch.
C13_DownloadIdempotent ==
    /\ [][(IsLoaderCall(lastCall', "download") /\ exists(fs, lastCall'.path)) =>
             /\ ~HasEvent(lastCall', "fetch")
             /\ lastCall'.err = NoError
             /\ fs' = fs]_vars
    /\ [][(IsLoaderCall(lastCall, "download") /\ HasEvent(lastCall, "fetch")
             /\ exists(fs, lastCall.path)
             /\ IsLoaderCall(lastCall', "download") /\ lastCall'.path = lastCall.path) =>
             /\ ~HasEvent(lastCall', "fetch")
             /\ fs' = fs]_vars

\* a download call that found the destination there and did not fetch
C13_Witness ==
    /\ IsLoaderCall(lastCall, "download")
    /\ exists(fs, lastCall.path)
    /\ lastCall.events = <<[Event("download", lastCall.path) EXCEPT !.key = ""]>>
    /\ lastCall.err = NoError

NotFound(e) == \E i \in DOMAIN e : e[i].msg = "Model file not found"

\* C14 as stated: a Full-tier resolution for a cache directory the caller
\* chose and that does not exist raises a not-found error, starts no fetch
\* and leaves the directory missing.
C14_MissingCacheDirFailsFast ==
    [][(lastCall = NoCall /\ IsCall(lastCall') /\ ~lastCall'.low_memory
          /\ lastCall'.custom = None /\ lastCall'.cfg \in ConfigIds
          /\ configs[lastCall'.cfg].cache_dir # CACHE_DIRECTORY
          /\ fs[LargePath(configs[lastCall'.cfg])] = "nodir") =>
          /\ NotFound(lastCall'.orig)
          /\ ~HasEvent(lastCall', "fetch")
          /\ fs'[LargePath(configs[lastCall'.cfg])] = "nodir"]_vars

SameOutcome(a, b) == a.model = b.model /\ a.err = b.err /\ a.fs = b.fs

\* the events of a without those of the verification
Unverified(ev) == SelectSeq(ev, LAMBDA e : e.op \notin {"verify", "warning"})

\* C15: for a file that exists and an expected checksum that does not match,
\* load_local returns the handle or raises the error that load_local without
\* a checksum returns or raises on the same file; the mismatch adds a warning
\* and nothing else, and the load by the classifier library is still made.
C15_MismatchNotFatal ==
    /\ [](\A path \in Paths, vh \in VerifyHashArgs \cup {VERIFY_FASTTEXT_LARGE_MODEL},
             env \in LoaderEnvs :
             (vh # None /\ exists(fs, path) /\ ~verify(fs, path, vh)) =>
                /\ SameOutcome(load_local(fs, path, vh, env, <<LoaderId, 1>>),
                               load_local(fs, path, None, env, <<LoaderId, 1>>))
                /\ Unverified(load_local(fs, path, vh, env, <<LoaderId, 1>>).events)
                      = load_local(fs, path, None, env, <<LoaderId, 1>>).events)
    /\ [][(IsLoaderCall(lastCall', "load_local") /\ lastCall'.hash # None
             /\ exists(fs, lastCall'.path)
             /\ ~verify(fs, lastCall'.path, lastCall'.hash)) =>
             /\ HasEvent(lastCall', "warning")
             /\ HasEvent(lastCall', "load_model")
             /\ lastCall'.err = NoError => Truthy(lastCall'.used)
             /\ fs[lastCall'.path] # "good" => lastCall'.err # NoError
             /\ fs' = fs]_vars

\* load_local was given a checksum that does not match and returned a handle
C15_Witness ==
    /\ IsLoaderCall(lastCall, "load_local") /\ lastCall.hash # None
    /\ ~verify(fs, lastCall.path, lastCall.hash)
    /\ HasEvent(lastCall, "warning")
    /\ Truthy(lastCall.used) /\ lastCall.err = NoError

\* C16 as stated: in a call that loads the Full file of the cache directory
\* with verification not disabled, the checksum of that file is verified
\* before the classifier library loads it; with verification disabled, and
\* for the Lite tier, nothing is verified.
C16_FullFileVerifiedBeforeLoad ==
    [][(lastCall = NoCall /\ IsCall(lastCall') /\ lastCall'.cfg \in ConfigIds) =>
          \A i \in DOMAIN lastCall'.events :
             /\ (lastCall'.events[i].op = "load_model"
                   /\ lastCall'.events[i].key = "high_memory"
                   /\ lastCall'.custom = None
                   /\ ~configs[lastCall'.cfg].disable_verify) =>
                   \E j \in 1..(i - 1) :
                      /\ lastCall'.events[j].op = "verify"
                      /\ lastCall'.events[j].path = lastCall'.events[i].path
             /\ lastCall'.events[i].op = "verify" =>
                   /\ ~configs[lastCall'.cfg].disable_verify
                   /\ lastCall'.events[i].key = "high_memory"]_vars

\* the strategies of _load_windows_compatible a call started, in order
IsAttempt(e) == e.via \in {"direct", "rel"} \/ e.op = "mkstemp"
StrategyOf(e) == IF e.op = "mkstemp" THEN "temp" ELSE e.via
Attempts(ev) ==
    [i \in DOMAIN SelectSeq(ev, IsAttempt) |-> StrategyOf(SelectSeq(ev, IsAttempt)[i])]
OnWindows(call) ==
    /\ call.level = "loader"
    /\ \E i \in DOMAIN call.events : call.events[i].via = "direct"
TempLoads(f, path, env) ==
    env.mkstemp = "ok" /\ env.copy = "ok" /\ exists(f, path) /\ win_loads(f, path, env, "tmp")

\* what C17 asks of one run r of _load_windows_compatible
InOrder(f, path, env, r) ==
    /\ Attempts(r.events) =
          IF win_loads(f, path, env, "direct") THEN <<"direct">>
          ELSE IF win_loads(f, path, env, "rel") THEN <<"direct", "rel">>
          ELSE <<"direct", "rel", "temp">>
    /\ r.err = NoError <=>
          \/ win_loads(f, path, env, "direct")
          \/ win_loads(f, path, env, "rel")
          \/ TempLoads(f, path, env)
    /\ r.err = NoError <=> Truthy(r.model)

\* C17: on Windows the strategies are started in the order direct path,
\* relative path, temporary copy; one is started only when every one before
\* it failed, the first that loads ends the call with its handle, and when
\* all three fail the call raises DetectError and gives no handle.
C17_StrategiesInOrder ==
    /\ [](\A path \in Paths, env \in WinEnvs :
             InOrder(fs, path, env,
                     _load_windows_compatible(fs, path, env, <<LoaderId, 1>>)))
    /\ [][OnWindows(lastCall') =>
             /\ Attempts(lastCall'.events) \in
                   {<<"direct">>, <<"direct", "rel">>, <<"direct", "rel", "temp">>}
             /\ lastCall'.err = NoError => Truthy(lastCall'.used)
             /\ lastCall'.err # NoError =>
                   /\ lastCall'.used = NoModel
                   /\ Attempts(lastCall'.events) = <<"direct", "rel", "temp">>
                   /\ Head(lastCall'.err).type = "DetectError"]_vars

\* a call in which the first two strategies failed and the copy loaded
C17_Witness ==
    /\ OnWindows(lastCall)
    /\ Attempts(lastCall.events) = <<"direct", "rel", "temp">>
    /\ lastCall.err = NoError /\ Truthy(lastCall.used)

EventAt(call, op) == CHOOSE i \in DOMAIN call.events : call.events[i].op = op
MadeTemp(call) ==
    \E i \in DOMAIN call.events :
        call.events[i].op = "mkstemp" /\ call.events[i].path = TmpPath

\* C18: when the temporary-copy strategy made its file, unlink has been
\* called on it after that, however the try block ended, and the file is gone
\* unless unlink failed; a failed unlink is logged and followed by MoveFileEx;
\* no temporary file is left by a call that made none; and whether unlink and
\* MoveFileEx fail does not change the handle returned or the error raised.
C18_TempFileCleanedUp ==
    /\ [](\A path \in Paths, env \in WinEnvs :
             SameOutcome(
                [_load_windows_compatible(fs, path, env, <<LoaderId, 1>>)
                    EXCEPT !.fs = fs],
                [_load_windows_compatible(fs, path,
                     [env EXCEPT !.unlink = "ok", !.movefile = "ok"], <<LoaderId, 1>>)
                    EXCEPT !.fs = fs]))
    /\ [][OnWindows(lastCall') =>
             /\ MadeTemp(lastCall') =>
                   /\ HasEvent(lastCall', "unlink")
                   /\ EventAt(lastCall', "mkstemp") < EventAt(lastCall', "unlink")
                   /\ \/ fs'[TmpPath] = "absent"
                      \/ /\ HasEvent(lastCall', "MoveFileEx")
                         /\ lastCall'.events[EventAt(lastCall', "unlink") + 1].op = "warning"
                         /\ EventAt(lastCall', "unlink") < EventAt(lastCall', "MoveFileEx")
             /\ ~MadeTemp(lastCall') => fs'[TmpPath] = fs[TmpPath]
             /\ \A path \in Paths : fs'[path] = fs[path]]_vars

\* a call whose copy loaded and whose unlink failed: the handle is returned,
\* the file is still there and MoveFileEx was called
C18_Witness ==
    /\ OnWindows(lastCall) /\ MadeTemp(lastCall)
    /\ lastCall.err = NoError /\ Truthy(lastCall.used)
    /\ HasEvent(lastCall, "unlink") /\ HasEvent(lastCall, "MoveFileEx")
    /\ fs[TmpPath] # "absent"

\* a detect call that handed its text to predict
GaveText(call) ==
    /\ call.level = "module" /\ call.op = "detect"
    /\ HasEvent(call, "predict")
HasNewline(text) == \E i \in DOMAIN text : text[i] = Newline

\* C19: the text predict gets has no newline; it has a space wherever the
\* text of the call has a newline and elsewhere the character of the call's
\* text (as it is, or lower-cased when normalize_input is on); and detect
\* does not raise the error predict raises for a newline.
C19_NewlinesBecomeSpaces ==
    GaveText(lastCall) =>
        /\ ~HasNewline(lastCall.given)
        /\ Len(lastCall.given) = Len(lastCall.text)
        /\ \A i \in DOMAIN lastCall.text :
              IF lastCall.text[i] = Newline THEN lastCall.given[i] = " "
              ELSE /\ lastCall.given[i] \in {lastCall.text[i], lower_char(lastCall.text[i])}
                   /\ ~lastCall.normalize => lastCall.given[i] = lastCall.text[i]
        /\ lastCall.err # NewlineError

\* a call whose text has a newline, and more than that, returned a result
C19_Witness ==
    /\ GaveText(lastCall)
    /\ HasNewline(lastCall.text) /\ Len(lastCall.text) > 2
    /\ lastCall.text[1] = "A" /\ lastCall.text[2] = Newline
    /\ lastCall.given[2] = " "
    /\ lastCall.err = NoError

\* the text of the call with a space for each newline
WithSpaces(text) == [i \in DOMAIN text |-> IF text[i] = Newline THEN " " ELSE text[i]]
NumberOf(text, class) == Cardinality({i \in DOMAIN text : text[i] \in class})
FullyUpper(text) ==
    /\ NumberOf(text, UpperChars) > 0
    /\ NumberOf(text, LowerChars) = 0
MostlyUpperLatin(text) ==
    100 * NumberOf(text, {"A"}) > 80 * NumberOf(text, {"A", "a"})

\* C20: with normalize_input on, predict gets the lower-cased text when the
\* text is fully upper-case, or more than 80% of its Latin letters are
\* upper-case and it is longer than 5; otherwise, and whenever
\* normalize_input is off, it gets the text as it is.  Normalizing what
\* predict got gives the same text again.
C20_NormalizationRule ==
    GaveText(lastCall) =>
        /\ lastCall.given =
              IF /\ lastCall.normalize
                 /\ \/ FullyUpper(WithSpaces(lastCall.text))
                    \/ /\ MostlyUpperLatin(WithSpaces(lastCall.text))
                       /\ Len(lastCall.text) > 5
              THEN str_lower(WithSpaces(lastCall.text))
              ELSE WithSpaces(lastCall.text)
        /\ _normalize_text(lastCall.given, lastCall.normalize) = lastCall.given

\* a text of six characters, five of its six Latin letters upper-case, was
\* lower-cased; it is not fully upper-case
C20_Witness ==
    /\ GaveText(lastCall) /\ lastCall.normalize
    /\ Len(lastCall.text) = 6
    /\ NumberOf(lastCall.text, {"A"}) = 5 /\ NumberOf(lastCall.text, {"a"}) = 1
    /\ lastCall.given = str_lower(lastCall.text)
    /\ lastCall.given # lastCall.text

\* a detect or detect_multilingual call in which predict returned out
GotOutput(call) ==
    /\ call.level = "module" /\ call.op \in Methods /\ call.k > 0
    /\ HasEvent(call, "predict")
    /\ call.out # <<>>
ScoresOf(seq) == {seq[i].score : i \in DOMAIN seq}
TimesScore(seq, v) == Cardinality({i \in DOMAIN seq : seq[i].score = v})
AtMostOne(score) == IF score > ScoreOne THEN ScoreOne ELSE score

\* C21 as stated: every score returned is in [0,1] whatever score predict
\* gave, and a score above 1.0 comes back as 1.0 without an error.
C21_ScoresInUnitInterval ==
    GotOutput(lastCall) =>
        /\ lastCall.err = NoError
        /\ \A v \in ScoresOf(lastCall.result) : 0 <= v /\ v <= ScoreOne
        /\ \A v \in ScoresOf(lastCall.out) :
              v > ScoreOne => ScoreOne \in ScoresOf(lastCall.result)

\* C21 as amended: every score returned is at most 1.0; a score above 1.0
\* comes back as 1.0 without an error, and every other score, a negative
\* one too, comes back as predict gave it.
C21_ScoresAtMostOne ==
    GotOutput(lastCall) =>
        /\ lastCall.err = NoError
        /\ \A v \in ScoresOf(lastCall.result) : v <= ScoreOne
        /\ \A v \in ScoresOf(lastCall.out) \cup ScoresOf(lastCall.result) :
              TimesScore(lastCall.result, v) =
                Cardinality({i \in DOMAIN lastCall.out :
                               AtMostOne(lastCall.out[i].score) = v})

\* predict gave a score above 1.0 and a score below 0: the first came back
\* as 1.0, the second as it was
C21_Witness ==
    /\ GotOutput(lastCall) /\ lastCall.err = NoError
    /\ ScoresOf(lastCall.out) = {ScoreOne + 1, 0 - 1}
    /\ ScoresOf(lastCall.result) = {ScoreOne, 0 - 1}

\* a detect_multilingual call that returned a list
GotList(call) ==
    /\ call.level = "module" /\ call.op = "detect_multilingual" /\ call.k > 0
    /\ HasEvent(call, "predict")
    /\ call.err = NoError
\* the pair of predict as the caller is to see it
Cleaned(pair) ==
    [lang |-> IF Head(pair.label) = LabelPrefix THEN Tail(pair.label) ELSE pair.label,
     score |-> AtMostOne(pair.score)]

\* C22: the list detect_multilingual returns has at most k entries, its
\* scores never increase along the list, and its entries are the pairs of
\* predict, prefix stripped and score clamped, each as often as predict
\* gave it.
C22_ListSortedAndComplete ==
    GotList(lastCall) =>
        /\ Len(lastCall.result) <= lastCall.k
        /\ \A i \in DOMAIN lastCall.result : \A j \in DOMAIN lastCall.result :
              i < j => lastCall.result[i].score >= lastCall.result[j].score
        /\ Len(lastCall.result) = Len(lastCall.out)
        /\ \A i \in DOMAIN lastCall.out :
              Cardinality({j \in DOMAIN lastCall.result :
                             lastCall.result[j] = Cleaned(lastCall.out[i])})
              = Cardinality({j \in DOMAIN lastCall.out :
                               Cleaned(lastCall.out[j]) = Cleaned(lastCall.out[i])})

\* predict gave three pairs in rising order of score, one above 1.0; the
\* list has them in falling order
C22_Witness ==
    /\ GotList(lastCall) /\ lastCall.k = 3 /\ Len(lastCall.out) = 3
    /\ lastCall.out[1].score < lastCall.out[2].score
    /\ lastCall.out[2].score < lastCall.out[3].score
    /\ lastCall.out[3].score > ScoreOne
    /\ lastCall.result[1] = [lang |-> <<"ja">>, score |-> ScoreOne]
    /\ lastCall.result[3].score = lastCall.out[1].score

\* how a call failed and the kind of the error the caller gets: "load" when
\* no classifier was obtained, "predict" when predict raised
FailureOf(r) ==
    IF r.err = NoError THEN <<"none", "none">>
    ELSE IF \E i \in DOMAIN r.events : r.events[i].op = "predict"
    THEN <<"predict", Head(r.err).type>>
    ELSE <<"load", Head(r.err).type>>
\* the failures a call on detector d can end with
Failures(d) ==
    {FailureOf(LangDetector_detect(op, d, detectors[d], configs[detectors[d].config],
                                   lm, fs, env)) :
       op \in Methods, lm \in BOOLEAN, env \in Envs}

\* C23 as stated: the kind of the error tells a model loading failure from
\* a failure of predict: the kind a call raised because no classifier was
\* obtained is not the kind of any error the detector raises because predict
\* failed.
C23_LoadAndPredictKindsDiffer ==
    (/\ lastCall.level = "method" /\ lastCall.err # NoError
     /\ ~HasEvent(lastCall, "predict")) =>
        \A b \in Failures(lastCall.det) :
            b[1] = "predict" => b[2] # Head(lastCall.err).type

\* C24 as stated: a call whose tier selector is not one of the recognized
\* values ends with an error, and it loads no model, starts no download and
\* leaves the cache of the detector as it was.
C24_UnknownSelectorRejected ==
    [][(lastCall'.level = "method" /\ lastCall'.selector \in OtherSelectors) =>
          /\ lastCall'.err # NoError
          /\ lastCall'.events = <<>>
          /\ detectors' = detectors
          /\ fs' = fs]_vars

IsSplit(call) == call.level = "split" /\ call.op = "parse_sentence"
TextsOf(cells) == [i \in DOMAIN cells |-> cells[i].text]
\* all of the characters of the text a are in the text b
Within(a, b) == \A i \in DOMAIN a : \E j \in DOMAIN b : b[j] = a[i]

\* C25: with merge_same, no two cells next to each other in the list that
\* is returned have the same language, None taken as a language.
C25_NoEqualNeighbours ==
    (IsSplit(lastCall) /\ lastCall.merge_same) =>
        \A i \in DOMAIN lastCall.cells : \A j \in DOMAIN lastCall.cells :
            j = i + 1 => lastCall.cells[i].lang # lastCall.cells[j].lang

\* four units, the first two without a language, the last two "EN", with
\* no filtering: two cells
C25_Witness ==
    /\ IsSplit(lastCall) /\ lastCall.merge_same /\ ~lastCall.filter_space
    /\ lastCall.langs = <<None, None, "EN", "EN">>
    /\ Len(lastCall.cells) = 2
    /\ lastCall.cells[1].lang = None /\ lastCall.cells[2].lang = "EN"

\* the units that are kept: all of them without filtering, else those that
\* detect_text gave a language
KeptUnits(call) ==
    SelectSeq([i \in DOMAIN call.units |-> [text |-> call.units[i], lang |-> call.langs[i]]],
              LAMBDA u : ~call.filter_space \/ u.lang # None)

\* C26 as stated: the texts of the cells, put together in order, are the
\* units (the chunks, cut to cell_limit) put together in order, whether
\* merge_same is on or off.
C26_CellsPartitionChunks ==
    IsSplit(lastCall) =>
        /\ join(lastCall.units) = join(lastCall.cut)
        /\ join(TextsOf(lastCall.cells)) = join(lastCall.units)

\* C26 as amended: the units put together are the chunks put together; the
\* texts of the cells put together in order are, with filter_space off, the
\* units put together in order, and with filter_space on the units that got
\* a language put together in order; whether merge_same is on or off.
C26_CellsPartitionKeptUnits ==
    IsSplit(lastCall) =>
        /\ join(lastCall.units) = join(lastCall.cut)
        /\ join(TextsOf(lastCall.cells)) = join(TextsOf(KeptUnits(lastCall)))
        /\ ~lastCall.filter_space =>
              join(TextsOf(lastCall.cells)) = join(lastCall.units)
        /\ \A i \in DOMAIN lastCall.cells :
              lastCall.cells[i].length = Len(lastCall.cells[i].text)

\* with filtering and merging, the unit in the middle got no language: the
\* cells have the first and the last unit only
C26_Witness ==
    /\ IsSplit(lastCall) /\ lastCall.merge_same /\ lastCall.filter_space
    /\ lastCall.units = <<(<<1, 2>>), (<<3>>), (<<4>>)>>
    /\ lastCall.langs = <<"EN", None, "EN">>
    /\ lastCall.cells = <<[text |-> <<1, 2, 4>>, lang |-> "EN", length |-> 3]>>

\* C27: without filtering, a unit that got no language is in a cell whose
\* language is None (with merge_same, together with the units next to it
\* that got no language either), and no cell has text of a unit with a
\* language before it and text of a unit with a language after it.
C27_NullUnitBreaksRun ==
    (IsSplit(lastCall) /\ ~lastCall.filter_space) =>
        \A i \in DOMAIN lastCall.units :
            lastCall.langs[i] = None =>
                /\ \E c \in DOMAIN lastCall.cells :
                      /\ lastCall.cells[c].lang = None
                      /\ Within(lastCall.units[i], lastCall.cells[c].text)
                /\ \A a \in 1..(i - 1) : \A b \in (i + 1)..Len(lastCall.units) :
                      \A c \in DOMAIN lastCall.cells :
                          ~(/\ lastCall.langs[a] # None /\ lastCall.langs[b] # None
                            /\ Within(lastCall.units[a], lastCall.cells[c].text)
                            /\ Within(lastCall.units[b], lastCall.cells[c].text))

\* "EN", no language, "EN" with merging and without filtering: three cells
C27_Witness ==
    /\ IsSplit(lastCall) /\ ~lastCall.filter_space /\ lastCall.merge_same
    /\ lastCall.langs = <<"EN", None, "EN">>
    /\ Len(lastCall.cells) = 3
    /\ lastCall.cells[2].lang = None

\* the last character of each chunk
ChunkEnds(cut) == {cut[i][Len(cut[i])] : i \in DOMAIN cut}

\* C28: no unit passed to detect_text is longer than cell_limit; the units
\* put together are the chunks put together; each unit lies within one
\* chunk; a unit shorter than cell_limit ends its chunk; and a chunk that is
\* not longer than cell_limit is a unit.
C28_UnitsWithinCellLimit ==
    IsSplit(lastCall) =>
        /\ \A i \in DOMAIN lastCall.units :
              /\ Len(lastCall.units[i]) <= lastCall.cell_limit
              /\ Len(lastCall.units[i]) > 0
              /\ \E c \in DOMAIN lastCall.cut : Within(lastCall.units[i], lastCall.cut[c])
              /\ Len(lastCall.units[i]) < lastCall.cell_limit =>
                    lastCall.units[i][Len(lastCall.units[i])] \in ChunkEnds(lastCall.cut)
        /\ join(lastCall.units) = join(lastCall.cut)
        /\ \A c \in DOMAIN lastCall.cut :
              Len(lastCall.cut[c]) <= lastCall.cell_limit =>
                 \E i \in DOMAIN lastCall.units : lastCall.units[i] = lastCall.cut[c]

\* a chunk of three characters and a chunk of one with cell_limit 2
C28_Witness ==
    /\ IsSplit(lastCall) /\ lastCall.cell_limit = 2
    /\ lastCall.cut = <<(<<1, 2, 3>>), (<<4>>)>>
    /\ lastCall.units = <<(<<1, 2>>), (<<3>>), (<<4>>)>>

IsLanguage(call) == call.level = "package" /\ call.op = "detect_language"
\* the sentence has a character whose code point is above 0x3040 and below
\* 0x30FF
HasKana(sentence) == \E i \in DOMAIN sentence : sentence[i] \in 12353..12542
UpperCase(label) == CASE label = "en" -> "EN" [] label = "ja" -> "JA" [] label = "zh" -> "ZH"

DownloadFailed(e) == \E i \in DOMAIN e : e[i].msg = "Download failed: e"

\* C30: load_with_download calls the downloader exactly when the model path
\* is absent at the call, and then before load_local; when the download
\* fails its error is raised and load_local is not called; when the
\* download returns and the file is still absent the call raises a
\* not-found error and load_model is not called.
C30_DownloadOnlyWhenAbsent ==
    [][IsLoaderCall(lastCall', "load_with_download") =>
          /\ HasEvent(lastCall', "download") <=> ~exists(fs, lastCall'.path)
          /\ HasEvent(lastCall', "download") =>
                /\ lastCall'.events[1].op = "download"
                /\ \A i \in DOMAIN lastCall'.events :
                      lastCall'.events[i].op \in {"load_local", "load_model"} =>
                          EventAt(lastCall', "download") < i
          /\ ~HasEvent(lastCall', "download") =>
                ~HasEvent(lastCall', "fetch") /\ HasEvent(lastCall', "load_local")
          /\ DownloadFailed(lastCall'.err) =>
                /\ HasEvent(lastCall', "fetch")
                /\ Head(lastCall'.err).type = "DetectError"
                /\ ~HasEvent(lastCall', "load_local")
                /\ ~HasEvent(lastCall', "load_model")
          /\ (HasEvent(lastCall', "fetch") /\ lastCall'.err = NoError) =>
                exists(fs', lastCall'.path)
          /\ ~exists(fs', lastCall'.path) =>
                /\ ~HasEvent(lastCall', "load_model")
                /\ \/ DownloadFailed(lastCall'.err)
                   \/ /\ NotFound(lastCall'.err)
                      /\ HasEvent(lastCall', "load_local")]_vars

\* the download returned and left no file: load_local was called and raised
\* the not-found error
C30_Witness ==
    /\ IsLoaderCall(lastCall, "load_with_download")
    /\ HasEvent(lastCall, "fetch") /\ HasEvent(lastCall, "load_local")
    /\ ~exists(fs, lastCall.path)
    /\ NotFound(lastCall.err) /\ ~DownloadFailed(lastCall.err)

NumberOfEvents(call, op) == Cardinality({i \in DOMAIN call.events : call.events[i].op = op})

\* C31: when predict raises, the call has called predict once, as the last
\* thing it did (no fallback and no load after it), it raises DetectError,
\* the handle it used is in the detector's cache, no handle that was cached
\* before the call is gone or replaced, and a call that loaded nothing
\* leaves the detector as it was.
C31_PredictFailureSurfaced ==
    [][(lastCall'.level = "method" /\ HasEvent(lastCall', "predict")
          /\ lastCall'.err # NoError) =>
          /\ NumberOfEvents(lastCall', "predict") = 1
          /\ lastCall'.events[Len(lastCall'.events)].op = "predict"
          /\ Head(lastCall'.err).type = "DetectError"
          /\ Head(lastCall'.err).msg \in
                {"Language detection failed", "Multilingual detection failed."}
          /\ Truthy(lastCall'.used)
          /\ \E key \in CacheKeys : detectors'[lastCall'.det]._models[key] = lastCall'.used
          /\ \A key \in CacheKeys :
                Truthy(detectors[lastCall'.det]._models[key]) =>
                   detectors'[lastCall'.det]._models[key] = detectors[lastCall'.det]._models[key]
          /\ ~HasEvent(lastCall', "load_model") => detectors' = detectors]_vars

\* predict raised on a handle that was cached before the call: the
\* detector is as it was
C31_Witness ==
    /\ lastCall.level = "method" /\ PredictFailed(lastCall)
    /\ lastCall.events = Keyed(<<Event("predict", lastCall.used.path)>>,
                                cache_key(lastCall.low_memory))
    /\ detectors[lastCall.det]._models[cache_key(lastCall.low_memory)] = lastCall.used

\* the entries of seq with the given score, in the order of seq
WithScore(seq, v) == SelectSeq(seq, LAMBDA entry : entry.score = v)
\* the pairs of predict as the caller is to see them, in predict's order
CleanedOut(call) == [i \in DOMAIN call.out |-> Cleaned(call.out[i])]

\* C32: in the list detect_multilingual returns, the entries that have the
\* same score after clamping stand in the order predict gave them, two
\* scores above 1.0 included.
C32_SortIsStable ==
    GotList(lastCall) =>
        \A v \in ScoresOf(lastCall.result) :
            WithScore(lastCall.result, v) = WithScore(CleanedOut(lastCall), v)

\* predict gave ja with a score above 1.0, then en with a lower score, then
\* en with a still higher score: the two scores above 1.0 tie at 1.0 and
\* ja stays ahead of en
C32_Witness ==
    /\ GotList(lastCall) /\ Len(lastCall.out) = 3
    /\ lastCall.out[1] = [label |-> <<LabelPrefix, "ja">>, score |-> ScoreOne + 1]
    /\ lastCall.out[2] = [label |-> <<LabelPrefix, "en">>, score |-> 5]
    /\ lastCall.out[3] = [label |-> <<LabelPrefix, "en">>, score |-> ScoreOne]
    /\ lastCall.result = <<[lang |-> <<"ja">>, score |-> ScoreOne],
                           [lang |-> <<"en">>, score |-> ScoreOne],
                           [lang |-> <<"en">>, score |-> 5]>>

\* where the runs of equal languages start in a list of labelled units
RunStarts(kept) == {i \in DOMAIN kept : i = 1 \/ kept[i].lang # kept[i - 1].lang}
\* the first unit of the c-th run, and its last unit
RunStart(kept, c) ==
    CHOOSE i \in RunStarts(kept) : Cardinality({j \in RunStarts(kept) : j <= i}) = c
RunEnd(kept, c) ==
    IF c = Cardinality(RunStarts(kept)) THEN Len(kept) ELSE RunStart(kept, c + 1) - 1

\* C33: with merge_same the cells are the runs of the labelled units that
\* went into the merge, in order: as many cells as runs of equal languages
\* next to each other, each cell with the language of its run, its text
\* the texts of the run put together in order, its length the number of
\* characters of that text; no unit into the merge gives no cell.
C33_MergeCollapsesRunsInOrder ==
    (IsSplit(lastCall) /\ lastCall.merge_same) =>
        /\ Len(lastCall.cells) = Cardinality(RunStarts(KeptUnits(lastCall)))
        /\ KeptUnits(lastCall) = <<>> => lastCall.cells = <<>>
        /\ \A c \in DOMAIN lastCall.cells :
              /\ lastCall.cells[c].lang = KeptUnits(lastCall)[RunStart(KeptUnits(lastCall), c)].lang
              /\ lastCall.cells[c].text =
                    join(TextsOf(SubSeq(KeptUnits(lastCall),
                                        RunStart(KeptUnits(lastCall), c),
                                        RunEnd(KeptUnits(lastCall), c))))
              /\ lastCall.cells[c].length = Len(lastCall.cells[c].text)

\* four units of one character, "ZH", "ZH", "EN", "EN": two cells of two
\* characters, in the order of the units
C33_Witness ==
    /\ IsSplit(lastCall) /\ lastCall.merge_same
    /\ lastCall.units = <<(<<1>>), (<<2>>), (<<3>>), (<<4>>)>>
    /\ lastCall.langs = <<"ZH", "ZH", "EN", "EN">>
    /\ lastCall.cells = <<[text |-> <<1, 2>>, lang |-> "ZH", length |-> 2],
                          [text |-> <<3, 4>>, lang |-> "EN", length |-> 2]>>

\* how often the call did op on path
TimesOn(call, op, path) ==
    Cardinality({i \in DOMAIN call.events :
                    call.events[i].op = op /\ call.events[i].path = path})
\* how often the call did op before (after) it fell back; all of them are
\* before when it did not fall back
TimesBefore(call, op) ==
    Cardinality({i \in DOMAIN call.events :
                    /\ call.events[i].op = op
                    /\ \A j \in 1..i : call.events[j].op # "fallback"})
TimesAfter(call, op) == NumberOfEvents(call, op) - TimesBefore(call, op)

\* C34: a method call ends with a handle or with an error; it falls back
\* at most once (the resolution of the fallback does not fall back), the
\* resolution that was asked for runs the loader at most once and the
\* downloader at most once, the resolution of the fallback runs the loader
\* at most once and the downloader never; so the Full model's file and the
\* Lite model's file are each tried at most once and there is at most one
\* download in the call.
C34_ResolutionBoundedFallbackOnce ==
    [][lastCall'.level = "method" =>
          /\ lastCall'.err # NoError \/ Truthy(lastCall'.used)
          /\ NumberOfEvents(lastCall', "fallback") <= 1
          /\ TimesBefore(lastCall', "load_local") <= 1
          /\ TimesBefore(lastCall', "download") <= 1
          /\ TimesAfter(lastCall', "load_local") <= 1
          /\ TimesAfter(lastCall', "download") = 0
          /\ TimesAfter(lastCall', "fetch") = 0
          /\ TimesOn(lastCall', "load_local",
                     LargePath(configs'[detectors'[lastCall'.det].config])) <= 1
          /\ TimesOn(lastCall', "load_local", _LOCAL_SMALL_MODEL_PATH) <= 1
          /\ NumberOfEvents(lastCall', "download") <= 1
          /\ NumberOfEvents(lastCall', "load_model") <= 2]_vars

\* the Full model was downloaded and did not load, the call fell back, and
\* the Lite model did not load either: the call raises
C34_Witness ==
    /\ lastCall.level = "method" /\ ~lastCall.low_memory
    /\ NumberOfEvents(lastCall, "fallback") = 1
    /\ TimesBefore(lastCall, "download") = 1
    /\ TimesBefore(lastCall, "load_local") = 1
    /\ TimesAfter(lastCall, "load_local") = 1
    /\ TimesOn(lastCall, "load_local", _LOCAL_SMALL_MODEL_PATH) = 1
    /\ lastCall.err # NoError /\ ~HasEvent(lastCall, "predict")

\* the text has a character of the unit (the characters of a sentence differ)
Shares(text, unit) == \E i \in DOMAIN text : \E j \in DOMAIN unit : text[i] = unit[j]
\* the text is a piece of the whole, nothing left out
Contiguous(text, whole) ==
    \E a \in 1..(Len(whole) - Len(text) + 1) : SubSeq(whole, a, a + Len(text) - 1) = text
\* unit i was dropped and lies between two units that the text has
DroppedInside(call, text, i) ==
    /\ call.langs[i] = None
    /\ \E a \in 1..(i - 1) : Shares(text, call.units[a])
    /\ \E b \in (i + 1)..Len(call.units) : Shares(text, call.units[b])

\* C35: with filter_space and merge_same, no cell has text of a unit that
\* got no language; two units with the same language that have only such
\* units or units of that language between them are in one cell; and the
\* text of a cell is a piece of the input with nothing left out exactly
\* when no unit between its first and its last unit was dropped.
C35_DroppedUnitsDoNotSeparate ==
    (IsSplit(lastCall) /\ lastCall.filter_space /\ lastCall.merge_same) =>
        /\ \A i \in DOMAIN lastCall.units : \A c \in DOMAIN lastCall.cells :
              lastCall.langs[i] = None =>
                  /\ lastCall.cells[c].lang # None
                  /\ ~Shares(lastCall.cells[c].text, lastCall.units[i])
        /\ \A a \in DOMAIN lastCall.units : \A b \in DOMAIN lastCall.units :
              (/\ a < b /\ lastCall.langs[a] # None
               /\ lastCall.langs[b] = lastCall.langs[a]
               /\ \A i \in (a + 1)..(b - 1) :
                     lastCall.langs[i] \in {None, lastCall.langs[a]}) =>
                  \E c \in DOMAIN lastCall.cells :
                      /\ lastCall.cells[c].lang = lastCall.langs[a]
                      /\ Shares(lastCall.cells[c].text, lastCall.units[a])
                      /\ Shares(lastCall.cells[c].text, lastCall.units[b])
        /\ \A c \in DOMAIN lastCall.cells :
              Contiguous(lastCall.cells[c].text, join(lastCall.units)) <=>
                  ~\E i \in DOMAIN lastCall.units :
                       DroppedInside(lastCall, lastCall.cells[c].text, i)

\* "ZH", no language, "ZH", "EN" for four units of one character: the
\* first cell has the first and the third character and is not a piece of
\* the input, the second cell is
C35_Witness ==
    /\ IsSplit(lastCall) /\ lastCall.filter_space /\ lastCall.merge_same
    /\ lastCall.units = <<(<<1>>), (<<2>>), (<<3>>), (<<4>>)>>
    /\ lastCall.langs = <<"ZH", None, "ZH", "EN">>
    /\ lastCall.cells = <<[text |-> <<1, 3>>, lang |-> "ZH", length |-> 2],
                          [text |-> <<4>>, lang |-> "EN", length |-> 1]>>
    /\ ~Contiguous(lastCall.cells[1].text, join(lastCall.units))
    /\ Contiguous(lastCall.cells[2].text, join(lastCall.units))

\* C6 as stated: however the threads that ask the shared detector for a tier
\* are interleaved, the model of a tier is loaded at most once, and threads
\* that got a result from the same tier used the same handle.
C6_FirstUseLoadsOnce ==
    /\ \A key \in CacheKeys : detectors[Shared].loads[key] <= 1
    /\ \A t1, t2 \in Threads :
          (threads[t1].pc = "done" /\ threads[t2].pc = "done"
              /\ threads[t1].low_memory = threads[t2].low_memory) =>
             threads[t1].model = threads[t2].model

====
